---- MODULE Spec2Model ----
(***************************************************************************)
(* Medication-adherence queries of the AIR-MS helpers                      *)
(* (src/python/airms_helper_fixed.py, src/python/airms_helper_v3.py).      *)
(*                                                                         *)
(* The state is the DRUG_EXPOSURE table, the CONCEPT lookup, the engine's  *)
(* decimal-to-integer conversion, and the result of the last query an      *)
(* AdherenceAnalyzer ran.  Every query is one action that evaluates the    *)
(* whole SQL text of the method, CTE by CTE, over the table.               *)
(*                                                                         *)
(* Dates are day numbers (day 0 is the first day of the modelled period).  *)
(* A nullable column holds <<>> (SQL NULL) or <<v>>.                       *)
(* A DECIMAL that can be a half (a MEDIAN of integers) is held doubled,    *)
(* in a column whose name ends in _x2.  pdc is held in units of 0.0001.    *)
(***************************************************************************)
EXTENDS Integers, Sequences, FiniteSets, Bags, TLC

VARIABLES db, concept, int_cast, res

vars == <<db, concept, int_cast, res>>

(***************************************************************************)
(* Bounds of the model.                                                    *)
(***************************************************************************)
\* rows in DRUG_EXPOSURE
MaxFills == 3
\* last day number a fill can start or explicitly end on
MaxDay == 5

(***************************************************************************)
(* SQL values and functions.                                               *)
(***************************************************************************)
NULL == <<>>

Some(v) == <<v>>

IsNull(x) == x = <<>>

NotNull(x) == x # <<>>

Val(x) == x[1]

ADD_DAYS(d, n) == d + n

DAYS_BETWEEN(a, b) == b - a

GREATEST(a, b) == IF a >= b THEN a ELSE b

\* TO_DATE('1900-01-01', 'YYYY-MM-DD') as a day number: day 0 is 2020-01-01
Date1900 == 0 - 43829

\* the drug_type_concept_id values of the optional filter
DrugTypeFilterIds == {38000175, 38000176, 581373}

\* The engine's conversion of a non-negative DECIMAL (given doubled) to the
\* INTEGER argument of ADD_DAYS: truncation or rounding half up.
ToInteger(x2, mode) == IF mode = "truncate" THEN x2 \div 2 ELSE (x2 + 1) \div 2

Min(S) == CHOOSE x \in S : \A y \in S : x <= y

Max(S) == CHOOSE x \in S : \A y \in S : x >= y

RECURSIVE SumSeq(_)
SumSeq(s) == IF s = <<>> THEN 0 ELSE Head(s) + SumSeq(Tail(s))

\* a sequence given as a function, as the tuple of its values
Tuple(f) == f \o <<>>

RECURSIVE BagToSeq(_)
BagToSeq(b) ==
    IF BagToSet(b) = {} THEN <<>>
    ELSE LET x == CHOOSE y \in BagToSet(b) : TRUE
         IN  <<x>> \o BagToSeq(b (-) SetToBag({x}))

RECURSIVE SeqToBag(_)
SeqToBag(s) == IF s = <<>> THEN EmptyBag ELSE SetToBag({Head(s)}) (+) SeqToBag(Tail(s))

RECURSIVE Flatten(_)
Flatten(ss) == IF ss = <<>> THEN <<>> ELSE Head(ss) \o Flatten(Tail(ss))

Perms(n) == {f \in [1..n -> 1..n] : \A i, j \in 1..n : i # j => f[i] # f[j]}

PermsOf == [n \in 0..MaxFills |-> Perms(n)]

\* comparison of two ORDER BY keys (tuples of the same length), column by
\* column
LexLE(a, b) ==
    \/ a = b
    \/ \E c \in 1..Len(a) : a[c] < b[c] /\ \A e \in 1..(c - 1) : a[e] = b[e]

\* ORDER BY the keys (keys[i] is the key of row s[i]), with tied rows kept in
\* the order they come in
Sorted(s, keys) ==
    LET n == Len(s)
        Before(j, i) == LexLE(keys[j], keys[i]) /\ (keys[i] = keys[j] => j < i)
        pos(i) == Cardinality({j \in 1..n : Before(j, i)}) + 1
    IN  Tuple([k \in 1..n |-> s[CHOOSE i \in 1..n : pos(i) = k]])

\* Every order an ORDER BY may return: tied rows come in an unspecified order.
Orderings(s, keys) ==
    LET n == Len(s)
    IN  IF \A i, j \in 1..n : i # j => keys[i] # keys[j] THEN {Sorted(s, keys)}
        ELSE {Tuple([i \in 1..n |-> s[p[i]]]) :
                p \in {q \in PermsOf[n] :
                          \A i \in 1..(n - 1) : LexLE(keys[q[i]], keys[q[i + 1]])}}

\* PARTITION BY / GROUP BY / ORDER BY person_id, drug_concept_id
GroupKey(r) == <<r.person_id, r.drug_concept_id>>

RECURSIVE SetToSeq(_)
SetToSeq(S) ==
    IF S = {} THEN <<>>
    ELSE LET x == CHOOSE y \in S : TRUE IN <<x>> \o SetToSeq(S \ {x})

GroupKeys(rows) ==
    LET ks == SetToSeq({GroupKey(rows[i]) : i \in 1..Len(rows)})
    IN  Sorted(ks, ks)

RowsOf(rows, k) == LET InGroup(r) == GroupKey(r) = k IN SelectSeq(rows, InGroup)

\* WHERE de.drug_exposure_start_date >= '{start_date}' AND ... <= '{end_date}'
\* {drug_type_filter}: a NULL start date satisfies neither comparison.
InRange(de, start_date, end_date, filter_drug_type) ==
    /\ NotNull(de.drug_exposure_start_date)
    /\ Val(de.drug_exposure_start_date) >= start_date
    /\ Val(de.drug_exposure_start_date) <= end_date
    /\ filter_drug_type => de.drug_type_concept_id \in DrugTypeFilterIds

Selected(table, start_date, end_date, filter_drug_type) ==
    LET Keep(de) == InRange(de, start_date, end_date, filter_drug_type)
    IN  SelectSeq(BagToSeq(table), Keep)

\* ROUND(CAST(n AS DECIMAL(10,4)) / CAST(d AS DECIMAL(10,4)), 4), d > 0,
\* in units of 0.0001 (ROUND rounds half away from zero)
RoundRatio4(n, d) ==
    IF n >= 0 THEN (20000 * n + d) \div (2 * d)
    ELSE 0 - ((20000 * (0 - n) + d) \div (2 * d))

\* The text Python interpolates for {pdc_threshold} and {pdc_threshold - 0.1},
\* as <<units of 0.0001, sign of what remains>>: 0.8 - 0.1 is
\* 0.7000000000000001 in binary floating point.
ThresholdText(t) == <<t, 0>>

ThresholdMinusTenthText(t) ==
    IF t = 8000 THEN <<7000, 1>>
    ELSE IF t = 3000 THEN <<2000, -1>>
    ELSE <<t - 1000, 0>>

\* pdc >= literal
GeLiteral(pdc, lit) == pdc > lit[1] \/ (pdc = lit[1] /\ lit[2] <= 0)

(***************************************************************************)
(* airms_helper_fixed.py: calculate_pdc_server_side (merge-based).         *)
(***************************************************************************)
\* CTE drug_exposures_cleaned: the end_date CASE
EndDateFixed(de) ==
    IF NotNull(de.drug_exposure_end_date)
        THEN Val(de.drug_exposure_end_date)
    ELSE IF NotNull(de.days_supply) /\ Val(de.days_supply) > 0
        THEN ADD_DAYS(Val(de.drug_exposure_start_date), Val(de.days_supply) - 1)
    ELSE IF NotNull(de.refills) /\ Val(de.refills) > 0
        THEN ADD_DAYS(Val(de.drug_exposure_start_date), (Val(de.refills) * 30) - 1)
    ELSE ADD_DAYS(Val(de.drug_exposure_start_date), 29)

CleanedRowFixed(de) ==
    [person_id |-> de.person_id,
     drug_concept_id |-> de.drug_concept_id,
     start_date |-> Val(de.drug_exposure_start_date),
     end_date |-> EndDateFixed(de)]

DrugExposuresCleanedFixed(table, start_date, end_date, filter_drug_type) ==
    LET sel == Selected(table, start_date, end_date, filter_drug_type)
    IN  Tuple([i \in 1..Len(sel) |-> CleanedRowFixed(sel[i])])

\* ORDER BY start_date, end_date
StartEndKeys(s) == Tuple([i \in 1..Len(s) |-> <<s[i].start_date, s[i].end_date>>])

\* MAX(end_date) OVER (... ROWS BETWEEN UNBOUNDED PRECEDING AND 1 PRECEDING)
PrevMaxEnd(o, i) == IF i = 1 THEN NULL ELSE Some(Max({o[j].end_date : j \in 1..(i - 1)}))

\* NewPeriodFlag without the "+ 1": an adjacent fill opens a period
NewPeriodFlagNoAdjacent(o, i) ==
    LET m == PrevMaxEnd(o, i)
    IN  IF o[i].start_date <= (IF NotNull(m) THEN Val(m) ELSE Date1900) THEN 0 ELSE 1

\* the CASE summed into coverage_group: 0 joins the running period, 1 opens one
NewPeriodFlag(o, i) ==
    LET m == PrevMaxEnd(o, i)
    IN  IF o[i].start_date <= (IF NotNull(m) THEN Val(m) ELSE Date1900) + 1 THEN 0 ELSE 1

\* CTE coverage_groups, for the rows o of one partition in window order
CoverageGroups(o) ==
    Tuple([i \in 1..Len(o) |->
        [person_id |-> o[i].person_id,
         drug_concept_id |-> o[i].drug_concept_id,
         start_date |-> o[i].start_date,
         end_date |-> o[i].end_date,
         coverage_group |-> SumSeq([j \in 1..i |-> NewPeriodFlag(o, j)])]])

\* CTE merged_periods, for one partition: one row per coverage_group
MergedPeriods(cg) ==
    LET ids == {cg[i].coverage_group : i \in 1..Len(cg)}
        Period(g) ==
            LET idx == {i \in 1..Len(cg) : cg[i].coverage_group = g}
                lo == Min({cg[i].start_date : i \in idx})
                hi == Max({cg[i].end_date : i \in idx})
            IN  [person_id |-> cg[1].person_id,
                 drug_concept_id |-> cg[1].drug_concept_id,
                 coverage_group |-> g,
                 period_start |-> lo,
                 period_end |-> hi,
                 num_fills |-> Cardinality(idx),
                 days_covered |-> DAYS_BETWEEN(lo, hi) + 1]
        gs == SetToSeq(ids)
    IN  Tuple([i \in 1..Len(gs) |-> Period(gs[i])])

\* ORDER BY period_start
PeriodStartKeys(s) == Tuple([i \in 1..Len(s) |-> <<s[i].period_start>>])

\* GapDaysFixed without the "- 1": the gap counted from period_end itself
GapDaysFixedOffByOne(period_end, next_start) ==
    IF NotNull(next_start) THEN DAYS_BETWEEN(period_end, Val(next_start)) ELSE 0

\* one gap_days value: period_end to the LEAD(period_start), or 0 on the last row
GapDaysFixed(period_end, next_start) ==
    IF NotNull(next_start) THEN DAYS_BETWEEN(period_end, Val(next_start)) - 1 ELSE 0

\* CTE gaps, for the periods p of one partition in window order
GapsFixed(p) ==
    Tuple([i \in 1..Len(p) |->
        [person_id |-> p[i].person_id,
         drug_concept_id |-> p[i].drug_concept_id,
         period_start |-> p[i].period_start,
         period_end |-> p[i].period_end,
         days_covered |-> p[i].days_covered,
         num_fills |-> p[i].num_fills,
         gap_days |-> GapDaysFixed(p[i].period_end,
                        IF i < Len(p) THEN Some(p[i + 1].period_start) ELSE NULL)]])

\* PdcOf with 1.0 for 0 in the ELSE branch
PdcOfElseOne(total_days_covered, treatment_duration) ==
    IF treatment_duration > 0
        THEN RoundRatio4(total_days_covered, treatment_duration)
        ELSE 10000

\* the pdc CASE of patient_drug_pdc
PdcOf(total_days_covered, treatment_duration) ==
    IF treatment_duration > 0
        THEN RoundRatio4(total_days_covered, treatment_duration)
        ELSE 0

\* PatientDrugPdcFixed with num_gaps counting every period, the last included
PatientDrugPdcFixedCountsLast(g) ==
    LET n == Len(g)
        first == Min({g[i].period_start : i \in 1..n})
        last == Max({g[i].period_end : i \in 1..n})
        covered == SumSeq([i \in 1..n |-> g[i].days_covered])
        duration == DAYS_BETWEEN(first, last) + 1
    IN  [person_id |-> g[1].person_id,
         drug_concept_id |-> g[1].drug_concept_id,
         total_days_covered |-> covered,
         total_fills |-> SumSeq([i \in 1..n |-> g[i].num_fills]),
         num_periods |-> n,
         num_gaps |-> SumSeq([i \in 1..n |-> IF g[i].gap_days >= 0 THEN 1 ELSE 0]),
         total_gap_days |-> SumSeq([i \in 1..n |-> g[i].gap_days]),
         max_gap_days |-> Max({g[i].gap_days : i \in 1..n}),
         first_exposure_date |-> first,
         last_exposure_date |-> last,
         treatment_duration |-> duration,
         pdc |-> PdcOf(covered, duration)]

\* CTE patient_drug_pdc, for the gaps rows g of one partition
PatientDrugPdcFixed(g) ==
    LET n == Len(g)
        first == Min({g[i].period_start : i \in 1..n})
        last == Max({g[i].period_end : i \in 1..n})
        covered == SumSeq([i \in 1..n |-> g[i].days_covered])
        duration == DAYS_BETWEEN(first, last) + 1
    IN  [person_id |-> g[1].person_id,
         drug_concept_id |-> g[1].drug_concept_id,
         total_days_covered |-> covered,
         total_fills |-> SumSeq([i \in 1..n |-> g[i].num_fills]),
         num_periods |-> n,
         num_gaps |-> SumSeq([i \in 1..n |-> IF g[i].gap_days > 0 THEN 1 ELSE 0]),
         total_gap_days |-> SumSeq([i \in 1..n |-> g[i].gap_days]),
         max_gap_days |-> Max({g[i].gap_days : i \in 1..n}),
         first_exposure_date |-> first,
         last_exposure_date |-> last,
         treatment_duration |-> duration,
         pdc |-> PdcOf(covered, duration)]

\* the adherence_status CASE of the final SELECT
AdherenceStatus(pdc, pdc_threshold) ==
    IF GeLiteral(pdc, ThresholdText(pdc_threshold)) THEN "Adherent"
    ELSE IF GeLiteral(pdc, ThresholdMinusTenthText(pdc_threshold)) THEN "Moderately Adherent"
    ELSE "Non-Adherent"

\* LEFT JOIN CONCEPT c ON pdc.drug_concept_id = c.concept_id [AND c.domain_id = 'Drug']
ConceptMatches(tbl, id, drug_only) ==
    LET m == SetToSeq({c \in tbl : c.concept_id = id /\ (drug_only => c.domain_id = "Drug")})
    IN  IF m = <<>> THEN <<NULL>> ELSE [i \in 1..Len(m) |-> Some(m[i])]

\* the query without its WHERE on treatment_duration
DurationFilterMissing(r, min_treatment_days) == TRUE

\* WHERE treatment_duration >= {min_treatment_days}
DurationFilter(r, min_treatment_days) == r.treatment_duration >= min_treatment_days

\* final SELECT of the merge-based query, for one patient_drug_pdc row
FinalRowsFixed(r, tbl, pdc_threshold, min_treatment_days) ==
    IF ~DurationFilter(r, min_treatment_days) THEN <<>>
    ELSE LET m == ConceptMatches(tbl, r.drug_concept_id, FALSE)
         IN  [i \in 1..Len(m) |->
                [person_id |-> r.person_id,
                 drug_concept_id |-> r.drug_concept_id,
                 drug_name |-> IF NotNull(m[i]) THEN Some(Val(m[i]).concept_name) ELSE NULL,
                 pdc |-> r.pdc,
                 adherence_status |-> AdherenceStatus(r.pdc, pdc_threshold),
                 total_days_covered |-> r.total_days_covered,
                 treatment_duration |-> r.treatment_duration,
                 total_fills |-> r.total_fills,
                 num_periods |-> r.num_periods,
                 num_gaps |-> r.num_gaps,
                 total_gap_days |-> r.total_gap_days,
                 max_gap_days |-> r.max_gap_days,
                 first_exposure_date |-> r.first_exposure_date,
                 last_exposure_date |-> r.last_exposure_date]]

\* The possible gaps CTEs of one partition (periods that tie on period_start
\* come in either order).
GapsChoicesFixed(cleaned, k) ==
    LET rows == RowsOf(cleaned, k)
        periods == MergedPeriods(CoverageGroups(Sorted(rows, StartEndKeys(rows))))
    IN  {GapsFixed(p) : p \in Orderings(periods, PeriodStartKeys(periods))}

\* Every result the merge-based query can return on the table.
PdcFixedOutcomes(table, tbl, start_date, end_date, pdc_threshold, min_treatment_days, filter_drug_type) ==
    LET cleaned == DrugExposuresCleanedFixed(table, start_date, end_date, filter_drug_type)
        ks == GroupKeys(cleaned)
        n == Len(ks)
        ch == Tuple([i \in 1..n |-> GapsChoicesFixed(cleaned, ks[i])])
        all == UNION {ch[i] : i \in 1..n}
    IN  {[op |-> "pdc_fixed",
          start_date |-> start_date,
          end_date |-> end_date,
          pdc_threshold |-> pdc_threshold,
          min_treatment_days |-> min_treatment_days,
          filter_drug_type |-> filter_drug_type,
          cleaned |-> SeqToBag(cleaned),
          gaps |-> Flatten(g),
          rows |-> Flatten([i \in 1..n |->
                      FinalRowsFixed(PatientDrugPdcFixed(g[i]), tbl, pdc_threshold,
                                     min_treatment_days)])] :
            g \in {f \in [1..n -> all] : \A i \in 1..n : f[i] \in ch[i]}}

(***************************************************************************)
(* airms_helper_v3.py: the drug median and the three end-date chains.      *)
(***************************************************************************)
\* MEDIAN(days_supply), doubled: the middle value, or the mean of the two
\* middle values of an even number of values
MedianX2(vals) ==
    LET o == Sorted(vals, Tuple([i \in 1..Len(vals) |-> <<vals[i]>>]))
        n == Len(o)
    IN  IF n % 2 = 1 THEN 2 * o[(n + 1) \div 2] ELSE o[n \div 2] + o[(n \div 2) + 1]

\* CTE drug_median_supply: the median_days_supply the LEFT JOIN gives a row
\* of the drug, NULL when the drug has no row with days_supply > 0
DrugMedianSupply(table, drug) ==
    LET HasSupply(de) ==
            /\ de.drug_concept_id = drug
            /\ NotNull(de.days_supply)
            /\ Val(de.days_supply) > 0
        rows == SelectSeq(BagToSeq(table), HasSupply)
    IN  IF rows = <<>> THEN NULL
        ELSE Some(MedianX2([i \in 1..Len(rows) |-> Val(rows[i].days_supply)]))

\* get_drug_exposures: the calculated_end_date CASE
EndDateExposuresV3(de, dms, mode) ==
    IF NotNull(de.drug_exposure_end_date)
        THEN Val(de.drug_exposure_end_date)
    ELSE IF NotNull(de.days_supply) /\ Val(de.days_supply) > 0
        THEN ADD_DAYS(Val(de.drug_exposure_start_date), Val(de.days_supply) - 1)
    ELSE IF NotNull(de.refills) /\ Val(de.refills) > 0
        THEN ADD_DAYS(Val(de.drug_exposure_start_date), (Val(de.refills) * 30) - 1)
    ELSE IF NotNull(dms)
        THEN ADD_DAYS(Val(de.drug_exposure_start_date), ToInteger(Val(dms) - 2, mode))
    ELSE ADD_DAYS(Val(de.drug_exposure_start_date), 29)

\* get_drug_exposures: the days_covered CASE (doubled)
DaysCoveredExposuresV3(de, dms) ==
    IF NotNull(de.drug_exposure_end_date)
        THEN 2 * (DAYS_BETWEEN(Val(de.drug_exposure_start_date),
                               Val(de.drug_exposure_end_date)) + 1)
    ELSE IF NotNull(de.days_supply) /\ Val(de.days_supply) > 0
        THEN 2 * Val(de.days_supply)
    ELSE IF NotNull(de.refills) /\ Val(de.refills) > 0
        THEN 2 * (Val(de.refills) * 30)
    ELSE IF NotNull(dms)
        THEN Val(dms)
    ELSE 2 * 30

\* get_drug_exposures: the imputation_method CASE
ImputationMethod(de, dms) ==
    IF NotNull(de.drug_exposure_end_date) THEN "actual_end_date"
    ELSE IF NotNull(de.days_supply) /\ Val(de.days_supply) > 0 THEN "days_supply"
    ELSE IF NotNull(de.refills) /\ Val(de.refills) > 0 THEN "refills"
    ELSE IF NotNull(dms) THEN "drug_median"
    ELSE "default_30"

\* EndDatePdcV3 with "days_supply >= 0" for "days_supply > 0"
EndDatePdcV3ZeroSupply(de, dms, mode) ==
    IF NotNull(de.drug_exposure_end_date)
        THEN Val(de.drug_exposure_end_date)
    ELSE IF NotNull(de.days_supply) /\ Val(de.days_supply) >= 0
        THEN ADD_DAYS(Val(de.drug_exposure_start_date), Val(de.days_supply) - 1)
    ELSE IF NotNull(de.refills) /\ Val(de.refills) > 0
        THEN ADD_DAYS(Val(de.drug_exposure_start_date), (Val(de.refills) * 30) - 1)
    ELSE IF NotNull(dms)
        THEN ADD_DAYS(Val(de.drug_exposure_start_date), ToInteger(Val(dms) - 2, mode))
    ELSE ADD_DAYS(Val(de.drug_exposure_start_date), 29)

\* calculate_pdc_server_side: CTE drug_exposures_with_dates, the end_date CASE
EndDatePdcV3(de, dms, mode) ==
    IF NotNull(de.drug_exposure_end_date)
        THEN Val(de.drug_exposure_end_date)
    ELSE IF NotNull(de.days_supply) /\ Val(de.days_supply) > 0
        THEN ADD_DAYS(Val(de.drug_exposure_start_date), Val(de.days_supply) - 1)
    ELSE IF NotNull(de.refills) /\ Val(de.refills) > 0
        THEN ADD_DAYS(Val(de.drug_exposure_start_date), (Val(de.refills) * 30) - 1)
    ELSE IF NotNull(dms)
        THEN ADD_DAYS(Val(de.drug_exposure_start_date), ToInteger(Val(dms) - 2, mode))
    ELSE ADD_DAYS(Val(de.drug_exposure_start_date), 29)

\* calculate_pdc_server_side: the days_supply CASE (doubled)
DaysSupplyPdcV3(de, dms) ==
    IF NotNull(de.days_supply) /\ Val(de.days_supply) > 0
        THEN 2 * Val(de.days_supply)
    ELSE IF NotNull(de.refills) /\ Val(de.refills) > 0
        THEN 2 * (Val(de.refills) * 30)
    ELSE IF NotNull(dms)
        THEN Val(dms)
    ELSE 2 * 30

\* EndDateGapsV3 without the drug-median branch (the chain of the older helper)
EndDateGapsV3NoMedian(de, dms, mode) ==
    IF NotNull(de.drug_exposure_end_date)
        THEN Val(de.drug_exposure_end_date)
    ELSE IF NotNull(de.days_supply) /\ Val(de.days_supply) > 0
        THEN ADD_DAYS(Val(de.drug_exposure_start_date), Val(de.days_supply) - 1)
    ELSE IF NotNull(de.refills) /\ Val(de.refills) > 0
        THEN ADD_DAYS(Val(de.drug_exposure_start_date), (Val(de.refills) * 30) - 1)
    ELSE ADD_DAYS(Val(de.drug_exposure_start_date), 29)

\* get_detailed_gaps: CTE drug_exposures_cleaned, the end_date CASE
EndDateGapsV3(de, dms, mode) ==
    IF NotNull(de.drug_exposure_end_date)
        THEN Val(de.drug_exposure_end_date)
    ELSE IF NotNull(de.days_supply) /\ Val(de.days_supply) > 0
        THEN ADD_DAYS(Val(de.drug_exposure_start_date), Val(de.days_supply) - 1)
    ELSE IF NotNull(de.refills) /\ Val(de.refills) > 0
        THEN ADD_DAYS(Val(de.drug_exposure_start_date), (Val(de.refills) * 30) - 1)
    ELSE IF NotNull(dms)
        THEN ADD_DAYS(Val(de.drug_exposure_start_date), ToInteger(Val(dms) - 2, mode))
    ELSE ADD_DAYS(Val(de.drug_exposure_start_date), 29)

(***************************************************************************)
(* airms_helper_v3.py: get_drug_exposures.                                 *)
(***************************************************************************)
ExposureRowV3(de, dms, mode) ==
    [person_id |-> de.person_id,
     drug_concept_id |-> de.drug_concept_id,
     start_date |-> Val(de.drug_exposure_start_date),
     drug_exposure_end_date |-> de.drug_exposure_end_date,
     days_supply |-> de.days_supply,
     refills |-> de.refills,
     drug_type_concept_id |-> de.drug_type_concept_id,
     median_days_supply_x2 |-> dms,
     calculated_end_date |-> EndDateExposuresV3(de, dms, mode),
     days_covered_x2 |-> DaysCoveredExposuresV3(de, dms),
     imputation_method |-> ImputationMethod(de, dms)]

\* ORDER BY de.person_id, de.drug_concept_id, de.drug_exposure_start_date
ExposureKeys(s) ==
    Tuple([i \in 1..Len(s) |-> <<s[i].person_id, s[i].drug_concept_id, s[i].start_date>>])

\* execute_query: "SELECT TOP {limit} * FROM (query)" when a limit is given
\* (a limit of 0 is no limit); the rows are held as a bag
TopRows(ordered, limit) ==
    IF NotNull(limit) /\ Val(limit) # 0
        THEN SeqToBag(SubSeq(ordered, 1, IF Val(limit) < Len(ordered) THEN Val(limit)
                                          ELSE Len(ordered)))
        ELSE SeqToBag(ordered)

\* Every result get_drug_exposures can return on the table.
ExposuresV3Outcomes(table, mode, start_date, end_date, limit, filter_drug_type) ==
    LET sel == Selected(table, start_date, end_date, filter_drug_type)
        rows == Tuple([i \in 1..Len(sel) |->
                    ExposureRowV3(sel[i], DrugMedianSupply(table, sel[i].drug_concept_id), mode)])
        orders == IF IsNull(limit) THEN {rows} ELSE Orderings(rows, ExposureKeys(rows))
    IN  {[op |-> "exposures_v3",
          start_date |-> start_date,
          end_date |-> end_date,
          limit |-> limit,
          filter_drug_type |-> filter_drug_type,
          rows |-> TopRows(o, limit)] : o \in orders}

(***************************************************************************)
(* airms_helper_v3.py: calculate_pdc_server_side (LAG-based).              *)
(***************************************************************************)
DatedRowV3(de, dms, mode) ==
    [person_id |-> de.person_id,
     drug_concept_id |-> de.drug_concept_id,
     start_date |-> Val(de.drug_exposure_start_date),
     end_date |-> EndDatePdcV3(de, dms, mode),
     days_supply_x2 |-> DaysSupplyPdcV3(de, dms)]

\* DrugExposuresWithDates with the median taken over the selected rows only
DrugExposuresWithDatesMedianOfSelected(table, mode, start_date, end_date, filter_drug_type) ==
    LET sel == Selected(table, start_date, end_date, filter_drug_type)
    IN  Tuple([i \in 1..Len(sel) |->
            DatedRowV3(sel[i], DrugMedianSupply(SeqToBag(sel), sel[i].drug_concept_id), mode)])

DrugExposuresWithDates(table, mode, start_date, end_date, filter_drug_type) ==
    LET sel == Selected(table, start_date, end_date, filter_drug_type)
    IN  Tuple([i \in 1..Len(sel) |->
            DatedRowV3(sel[i], DrugMedianSupply(table, sel[i].drug_concept_id), mode)])

\* CTE exposure_with_prev, for the rows o of one partition in window order:
\* LAG(end_date)
PrevEndDate(o, i) == IF i = 1 THEN NULL ELSE Some(o[i - 1].end_date)

\* CTE exposure_with_gaps: the three CASEs
GapDaysV3(start_date, prev_end_date) ==
    IF NotNull(prev_end_date) /\ start_date > Val(prev_end_date)
        THEN DAYS_BETWEEN(Val(prev_end_date), start_date) - 1
        ELSE 0

OverlapDaysV3(start_date, prev_end_date) ==
    IF NotNull(prev_end_date) /\ start_date <= Val(prev_end_date)
        THEN DAYS_BETWEEN(start_date, Val(prev_end_date))
        ELSE 0

\* AdjustedDaysCovered without the overlap branch: every fill counted whole
AdjustedDaysCoveredWhole(start_date, end_date, prev_end_date) ==
    DAYS_BETWEEN(start_date, end_date) + 1

AdjustedDaysCovered(start_date, end_date, prev_end_date) ==
    IF NotNull(prev_end_date) /\ start_date <= Val(prev_end_date)
        THEN GREATEST(0, DAYS_BETWEEN(start_date, end_date) + 1
                         - DAYS_BETWEEN(start_date, Val(prev_end_date)) - 1)
        ELSE DAYS_BETWEEN(start_date, end_date) + 1

ExposureWithGaps(o) ==
    Tuple([i \in 1..Len(o) |->
        [person_id |-> o[i].person_id,
         drug_concept_id |-> o[i].drug_concept_id,
         start_date |-> o[i].start_date,
         end_date |-> o[i].end_date,
         prev_end_date |-> PrevEndDate(o, i),
         fill_number |-> i,
         gap_days |-> GapDaysV3(o[i].start_date, PrevEndDate(o, i)),
         overlap_days |-> OverlapDaysV3(o[i].start_date, PrevEndDate(o, i)),
         adjusted_days_covered |->
             AdjustedDaysCovered(o[i].start_date, o[i].end_date, PrevEndDate(o, i))]])

\* CTEs patient_drug_summary and patient_drug_pdc (before its WHERE), for
\* the exposure_with_gaps rows g of one partition
PatientDrugPdcV3(g) ==
    LET n == Len(g)
        first == Min({g[i].start_date : i \in 1..n})
        last == Max({g[i].end_date : i \in 1..n})
        covered == SumSeq([i \in 1..n |-> g[i].adjusted_days_covered])
        duration == DAYS_BETWEEN(first, last) + 1
    IN  [person_id |-> g[1].person_id,
         drug_concept_id |-> g[1].drug_concept_id,
         total_days_covered |-> covered,
         total_fills |-> n,
         num_gaps |-> SumSeq([i \in 1..n |-> IF g[i].gap_days > 0 THEN 1 ELSE 0]),
         total_gap_days |-> SumSeq([i \in 1..n |-> g[i].gap_days]),
         max_gap_days |-> Max({g[i].gap_days : i \in 1..n}),
         first_exposure_date |-> first,
         last_exposure_date |-> last,
         treatment_duration |-> duration,
         pdc |-> PdcOf(covered, duration)]

\* the pdc CASE of the final SELECT: 1.0 above 1.0, 0.0 below 0.0
ClampPdc(pdc) == IF pdc > 10000 THEN 10000 ELSE IF pdc < 0 THEN 0 ELSE pdc

\* WHERE of patient_drug_pdc, the joins and the WHERE of the final SELECT,
\* for one row (the PERSON and condition columns decorate the row and are
\* not held)
FinalRowsV3(r, tbl, pdc_threshold, min_treatment_days) ==
    IF ~DurationFilter(r, min_treatment_days) THEN <<>>
    ELSE LET m == ConceptMatches(tbl, r.drug_concept_id, TRUE)
             Named(c) == NotNull(c)
             kept == SelectSeq(m, Named)
         IN  [i \in 1..Len(kept) |->
                [person_id |-> r.person_id,
                 drug_concept_id |-> r.drug_concept_id,
                 drug_name |-> Some(Val(kept[i]).concept_name),
                 pdc |-> ClampPdc(r.pdc),
                 adherence_status |-> AdherenceStatus(r.pdc, pdc_threshold),
                 total_days_covered |-> r.total_days_covered,
                 treatment_duration |-> r.treatment_duration,
                 total_fills |-> r.total_fills,
                 num_gaps |-> r.num_gaps,
                 total_gap_days |-> r.total_gap_days,
                 max_gap_days |-> r.max_gap_days,
                 first_exposure_date |-> r.first_exposure_date,
                 last_exposure_date |-> r.last_exposure_date]]

\* The result of the LAG-based query on the table (rows that tie on
\* start_date and end_date are equal in every column the query reads).
PdcV3Outcome(table, tbl, mode, start_date, end_date, pdc_threshold, min_treatment_days, filter_drug_type) ==
    LET dated == DrugExposuresWithDates(table, mode, start_date, end_date, filter_drug_type)
        ks == GroupKeys(dated)
        n == Len(ks)
        grp == Tuple([i \in 1..n |-> RowsOf(dated, ks[i])])
        g == Tuple([i \in 1..n |-> ExposureWithGaps(Sorted(grp[i], StartEndKeys(grp[i])))])
    IN  [op |-> "pdc_v3",
         start_date |-> start_date,
         end_date |-> end_date,
         pdc_threshold |-> pdc_threshold,
         min_treatment_days |-> min_treatment_days,
         filter_drug_type |-> filter_drug_type,
         cleaned |-> SeqToBag(dated),
         rows |-> Flatten([i \in 1..n |->
                     FinalRowsV3(PatientDrugPdcV3(g[i]), tbl, pdc_threshold,
                                 min_treatment_days)])]

(***************************************************************************)
(* airms_helper_v3.py: get_detailed_gaps.                                  *)
(***************************************************************************)
GapsCleanedRowV3(de, dms, mode) ==
    [person_id |-> de.person_id,
     drug_concept_id |-> de.drug_concept_id,
     start_date |-> Val(de.drug_exposure_start_date),
     end_date |-> EndDateGapsV3(de, dms, mode),
     days_supply |-> de.days_supply]

DrugExposuresCleanedV3(table, mode, start_date, end_date, filter_drug_type) ==
    LET sel == Selected(table, start_date, end_date, filter_drug_type)
    IN  Tuple([i \in 1..Len(sel) |->
            GapsCleanedRowV3(sel[i], DrugMedianSupply(table, sel[i].drug_concept_id), mode)])

\* ORDER BY start_date
StartKeys(s) == Tuple([i \in 1..Len(s) |-> <<s[i].start_date>>])

\* GapDaysDetailV3 without the "- 1": the gap counted from end_date itself
GapDaysDetailV3NoMinusOne(end_date, next_start_date) ==
    IF NotNull(next_start_date) /\ Val(next_start_date) > end_date
        THEN DAYS_BETWEEN(end_date, Val(next_start_date))
        ELSE 0

\* CTE gaps_calculated: the gap_days CASE
GapDaysDetailV3(end_date, next_start_date) ==
    IF NotNull(next_start_date) /\ Val(next_start_date) > end_date
        THEN DAYS_BETWEEN(end_date, Val(next_start_date)) - 1
        ELSE 0

\* GapSeverity with ">" for ">=" at every threshold
GapSeverityStrict(gap_days) ==
    IF gap_days > 90 THEN "Critical Gap (90+ days)"
    ELSE IF gap_days > 30 THEN "Major Gap (30-89 days)"
    ELSE IF gap_days > 14 THEN "Moderate Gap (14-29 days)"
    ELSE IF gap_days > 7 THEN "Minor Gap (7-13 days)"
    ELSE "Minimal Gap (<7 days)"

\* the gap_severity CASE
GapSeverity(gap_days) ==
    IF gap_days >= 90 THEN "Critical Gap (90+ days)"
    ELSE IF gap_days >= 30 THEN "Major Gap (30-89 days)"
    ELSE IF gap_days >= 14 THEN "Moderate Gap (14-29 days)"
    ELSE IF gap_days >= 7 THEN "Minor Gap (7-13 days)"
    ELSE "Minimal Gap (<7 days)"

\* CTEs gaps_detail and gaps_calculated and the final SELECT, for the rows o
\* of one partition in window order
GapRowsV3(o, tbl, min_gap_days) ==
    LET NextStart(i) == IF i < Len(o) THEN Some(o[i + 1].start_date) ELSE NULL
        Row(i, c) ==
            [person_id |-> o[i].person_id,
             drug_concept_id |-> o[i].drug_concept_id,
             drug_name |-> IF NotNull(c) THEN Some(Val(c).concept_name) ELSE NULL,
             fill_sequence |-> i,
             fill_before_gap_date |-> o[i].start_date,
             fill_before_gap_end_date |-> o[i].end_date,
             gap_start_date |-> Some(ADD_DAYS(o[i].end_date, 1)),
             gap_end_date |-> IF NotNull(NextStart(i)) THEN Some(ADD_DAYS(Val(NextStart(i)), -1)) ELSE NULL,
             gap_days |-> GapDaysDetailV3(o[i].end_date, NextStart(i)),
             gap_severity |-> GapSeverity(GapDaysDetailV3(o[i].end_date, NextStart(i))),
             fill_after_gap_date |-> NextStart(i),
             days_supply_before_gap |-> o[i].days_supply]
        Rows(i) ==
            IF ~(GapDaysDetailV3(o[i].end_date, NextStart(i)) >= min_gap_days) THEN <<>>
            ELSE LET m == ConceptMatches(tbl, o[i].drug_concept_id, FALSE)
                 IN  [j \in 1..Len(m) |-> Row(i, m[j])]
    IN  Flatten([i \in 1..Len(o) |-> Rows(i)])

\* Every result get_detailed_gaps can return on the table (fills of a
\* partition that tie on start_date come in any order).
GapsV3Outcomes(table, tbl, mode, start_date, end_date, min_gap_days, filter_drug_type) ==
    LET cleaned == DrugExposuresCleanedV3(table, mode, start_date, end_date, filter_drug_type)
        ks == GroupKeys(cleaned)
        n == Len(ks)
        grp == Tuple([i \in 1..n |-> RowsOf(cleaned, ks[i])])
        ch == Tuple([i \in 1..n |->
                 {GapRowsV3(o, tbl, min_gap_days) :
                     o \in Orderings(grp[i], StartKeys(grp[i]))}])
        all == UNION {ch[i] : i \in 1..n}
    IN  {[op |-> "gaps_v3",
          start_date |-> start_date,
          end_date |-> end_date,
          min_gap_days |-> min_gap_days,
          filter_drug_type |-> filter_drug_type,
          cleaned |-> SeqToBag(cleaned),
          rows |-> Flatten(g)] :
            g \in {f \in [1..n -> all] : \A i \in 1..n : f[i] \in ch[i]}}

(***************************************************************************)
(* airms_helper_fixed.py: get_detailed_gaps.                               *)
(***************************************************************************)
\* CTE drug_exposures_cleaned of get_detailed_gaps, one row
GapsCleanedRowFixed(de) ==
    [person_id |-> de.person_id,
     drug_concept_id |-> de.drug_concept_id,
     start_date |-> Val(de.drug_exposure_start_date),
     end_date |-> EndDateFixed(de),
     days_supply |-> de.days_supply]

DrugExposuresCleanedGapsFixed(table, start_date, end_date, filter_drug_type) ==
    LET sel == Selected(table, start_date, end_date, filter_drug_type)
    IN  Tuple([i \in 1..Len(sel) |-> GapsCleanedRowFixed(sel[i])])

\* CTE gaps_detail: the gap_days CASE, NULL on the last fill of a partition
GapDaysDetailFixed(end_date, next_start_date) ==
    IF NotNull(next_start_date)
        THEN Some(DAYS_BETWEEN(end_date, Val(next_start_date)) - 1)
        ELSE NULL

\* CTE gaps_detail and the final SELECT, for the rows o of one partition in
\* window order; a NULL gap_days fails "g.gap_days >= {min_gap_days}"
GapRowsFixed(o, tbl, min_gap_days) ==
    LET NextStart(i) == IF i < Len(o) THEN Some(o[i + 1].start_date) ELSE NULL
        Gap(i) == GapDaysDetailFixed(o[i].end_date, NextStart(i))
        Row(i, c) ==
            [person_id |-> o[i].person_id,
             drug_concept_id |-> o[i].drug_concept_id,
             drug_name |-> IF NotNull(c) THEN Some(Val(c).concept_name) ELSE NULL,
             fill_sequence |-> i,
             fill_before_gap_date |-> o[i].start_date,
             fill_before_gap_end_date |-> o[i].end_date,
             gap_start_date |-> Some(ADD_DAYS(o[i].end_date, 1)),
             gap_end_date |-> Some(ADD_DAYS(Val(NextStart(i)), -1)),
             gap_days |-> Val(Gap(i)),
             gap_severity |-> GapSeverity(Val(Gap(i))),
             fill_after_gap_date |-> NextStart(i),
             days_supply_before_gap |-> o[i].days_supply]
        Rows(i) ==
            IF IsNull(Gap(i)) \/ ~(Val(Gap(i)) >= min_gap_days) THEN <<>>
            ELSE LET m == ConceptMatches(tbl, o[i].drug_concept_id, FALSE)
                 IN  [j \in 1..Len(m) |-> Row(i, m[j])]
    IN  Flatten([i \in 1..Len(o) |-> Rows(i)])

\* Every result get_detailed_gaps of the merge-based helper can return on
\* the table (fills of a partition that tie on start_date come in any order).
GapsFixedOutcomes(table, tbl, start_date, end_date, min_gap_days, filter_drug_type) ==
    LET cleaned == DrugExposuresCleanedGapsFixed(table, start_date, end_date, filter_drug_type)
        ks == GroupKeys(cleaned)
        n == Len(ks)
        grp == Tuple([i \in 1..n |-> RowsOf(cleaned, ks[i])])
        ch == Tuple([i \in 1..n |->
                 {GapRowsFixed(o, tbl, min_gap_days) :
                     o \in Orderings(grp[i], StartKeys(grp[i]))}])
        all == UNION {ch[i] : i \in 1..n}
    IN  {[op |-> "gaps_fixed",
          start_date |-> start_date,
          end_date |-> end_date,
          min_gap_days |-> min_gap_days,
          filter_drug_type |-> filter_drug_type,
          cleaned |-> SeqToBag(cleaned),
          rows |-> Flatten(g)] :
            g \in {f \in [1..n -> all] : \A i \in 1..n : f[i] \in ch[i]}}

(***************************************************************************)
(* airms_helper_v3.py: the connection, execute_query, get_database_info.   *)
(***************************************************************************)
\* the exception a failing airms.conn.sql(query).collect() raises
CollectError == "collect() raised"

\* execute_query around one collect(): what the connection did (conn_raised:
\* the number of the collect() call that raised, 0 when none did) and what
\* the caller gets; the except clause logs the exception and re-raises it
ExecuteQuery(df, conn_raises) ==
    IF conn_raises
        THEN [op |-> "execute_query", conn_raised |-> 1,
              raised |-> Some(CollectError), returned |-> NULL]
        ELSE [op |-> "execute_query", conn_raised |-> 0,
              raised |-> NULL, returned |-> Some(df)]

\* the keys of info in the order get_database_info fills them, one collect()
\* each
InfoKeys ==
    <<"total_drug_exposures", "date_range", "unique_patients", "unique_drugs",
      "days_supply_stats">>

\* the value the query of a key gives on the table (aggregates over no row,
\* COUNT apart, are NULL; pct_null in units of 0.01)
InfoValue(table, key) ==
    LET t == BagToSeq(table)
        n == Len(t)
        starts == {Val(t[i].drug_exposure_start_date) :
                     i \in {j \in 1..n : NotNull(t[j].drug_exposure_start_date)}}
        nulls == Cardinality({i \in 1..n : IsNull(t[i].days_supply)})
    IN  IF key = "total_drug_exposures" THEN Some(n)
        ELSE IF key = "date_range"
            THEN Some([min |-> IF starts = {} THEN NULL ELSE Some(Min(starts)),
                       max |-> IF starts = {} THEN NULL ELSE Some(Max(starts))])
        ELSE IF key = "unique_patients"
            THEN Some(Cardinality({t[i].person_id : i \in 1..n}))
        ELSE IF key = "unique_drugs"
            THEN Some(Cardinality({t[i].drug_concept_id : i \in 1..n}))
        ELSE IF key = "days_supply_stats"
            THEN Some([total |-> n,
                       null_count |-> IF n = 0 THEN NULL ELSE Some(nulls),
                       pct_null |-> IF n = 0 THEN NULL
                                    ELSE Some((20000 * nulls + n) \div (2 * n))])
        ELSE Some(CollectError)

\* get_database_info when the collect() call number fail_at raises (0: none
\* does): the keys filled before it, and 'error' with the text of the
\* exception; the except clause returns info
GetDatabaseInfoOutcome(table, fail_at) ==
    LET done == IF fail_at = 0 THEN Len(InfoKeys) ELSE fail_at - 1
        keys == {InfoKeys[i] : i \in 1..done} \cup (IF fail_at = 0 THEN {} ELSE {"error"})
    IN  [op |-> "get_database_info", conn_raised |-> fail_at, raised |-> NULL,
         returned |-> Some([k \in keys |-> InfoValue(table, k)])]

(***************************************************************************)
(* The state machine.                                                      *)
(***************************************************************************)
NoResult == [op |-> "none"]

\* a DRUG_EXPOSURE row
Fill(p, d, t, s, e, ds, rf) ==
    [person_id |-> p, drug_concept_id |-> d, drug_type_concept_id |-> t,
     drug_exposure_start_date |-> s, drug_exposure_end_date |-> e,
     days_supply |-> ds, refills |-> rf]

\* a CONCEPT row
Concept(id, name, domain) == [concept_id |-> id, concept_name |-> name, domain_id |-> domain]

\* The table is the read-only input of an analysis: it is loaded before the
\* analyzer's first query.
InsertFill(de) ==
    /\ res = NoResult
    /\ BagCardinality(db) < MaxFills
    /\ db' = db (+) SetToBag({de})
    /\ UNCHANGED <<concept, int_cast, res>>

CalculatePdcFixed(start_date, end_date, pdc_threshold, min_treatment_days, filter_drug_type) ==
    /\ \E out \in PdcFixedOutcomes(db, concept, start_date, end_date, pdc_threshold,
                                   min_treatment_days, filter_drug_type) :
          res' = out
    /\ UNCHANGED <<db, concept, int_cast>>

CalculatePdcV3(start_date, end_date, pdc_threshold, min_treatment_days, filter_drug_type) ==
    /\ res' = PdcV3Outcome(db, concept, int_cast, start_date, end_date, pdc_threshold,
                           min_treatment_days, filter_drug_type)
    /\ UNCHANGED <<db, concept, int_cast>>

GetDrugExposuresV3(start_date, end_date, limit, filter_drug_type) ==
    /\ \E out \in ExposuresV3Outcomes(db, int_cast, start_date, end_date, limit,
                                      filter_drug_type) :
          res' = out
    /\ UNCHANGED <<db, concept, int_cast>>

GetDetailedGapsV3(start_date, end_date, min_gap_days, filter_drug_type) ==
    /\ \E out \in GapsV3Outcomes(db, concept, int_cast, start_date, end_date, min_gap_days,
                                 filter_drug_type) :
          res' = out
    /\ UNCHANGED <<db, concept, int_cast>>

GetDetailedGapsFixed(start_date, end_date, min_gap_days, filter_drug_type) ==
    /\ \E out \in GapsFixedOutcomes(db, concept, start_date, end_date, min_gap_days,
                                    filter_drug_type) :
          res' = out
    /\ UNCHANGED <<db, concept, int_cast>>

\* calculate_pdc_server_side through execute_query, over a connection whose
\* collect() may raise
CalculatePdcV3OverConnection(start_date, end_date, pdc_threshold, min_treatment_days, filter_drug_type, conn_raises) ==
    /\ res' = ExecuteQuery(PdcV3Outcome(db, concept, int_cast, start_date, end_date,
                                        pdc_threshold, min_treatment_days,
                                        filter_drug_type).rows, conn_raises)
    /\ UNCHANGED <<db, concept, int_cast>>

GetDatabaseInfo(fail_at) ==
    /\ res' = GetDatabaseInfoOutcome(db, fail_at)
    /\ UNCHANGED <<db, concept, int_cast>>

(***************************************************************************)
(* Inputs.                                                                 *)
(***************************************************************************)
Days == 0..MaxDay

\* a drug_type_concept_id the optional filter keeps
PrescriptionType == 38000175

\* lengths in days of the intervals of Spec (-1: the end date is two days
\* before the start date)
Lengths == {-1, 1, 3}

Interval(p, d, s, e) == Fill(p, d, PrescriptionType, Some(s), Some(e), NULL, NULL)

\* fills with an explicit end date: one (person, drug) group with every
\* start day and length, and three fills of two other groups
IntervalFills ==
    {Interval(1, 1, s, s + l - 1) : s \in Days, l \in Lengths}
        \cup {Interval(2, 1, 0, 1), Interval(2, 1, 3, 3), Interval(1, 2, 1, 2)}

\* the start day of the fills of SpecChain
ChainDay == 1

Supply(d, e, ds, rf) == Fill(1, d, PrescriptionType, Some(ChainDay), e, ds, rf)

\* fills that reach every branch of the end-date chain: days_supply and
\* refills absent, negative, zero and positive, with and without an explicit
\* end date (before and after the start date), and a fill of a second drug
\* that gives that drug a median of its own
ChainFills ==
    {Supply(1, NULL, ds, rf) :
        ds \in {NULL, Some(-1), Some(0)}, rf \in {NULL, Some(-1), Some(0), Some(1)}}
        \cup {Supply(1, NULL, ds, rf) : ds \in {Some(1), Some(2)}, rf \in {NULL, Some(1)}}
        \cup {Supply(1, Some(e), x[1], x[2]) :
                e \in {ChainDay - 1, ChainDay + 1},
                x \in {<<NULL, NULL>>, <<Some(2), Some(1)>>}}
        \cup {Supply(2, NULL, Some(4), NULL)}

Drugs == 1..2

ConceptFull == {Concept(d, "drug", "Drug") : d \in Drugs}

CastModes == {"truncate", "round"}

Init ==
    /\ db = EmptyBag
    /\ concept = ConceptFull
    /\ int_cast \in CastModes
    /\ res = NoResult

\* the aggregation of intervals: both variants of calculate_pdc_server_side
Next ==
    \/ \E de \in IntervalFills : InsertFill(de)
    \/ CalculatePdcFixed(0, MaxDay, 8000, 1, FALSE)
    \/ CalculatePdcV3(0, MaxDay, 8000, 1, FALSE)

Spec == Init /\ [][Next]_vars

\* the end-date chain: the queries over fills of every shape, each as the
\* first query on the table
NextChain ==
    \/ \E de \in ChainFills : InsertFill(de)
    \/ res = NoResult /\ GetDrugExposuresV3(0, MaxDay, NULL, FALSE)
    \/ res = NoResult /\ CalculatePdcV3(0, MaxDay, 8000, 1, FALSE)
    \/ res = NoResult /\ GetDetailedGapsV3(0, MaxDay, 1, FALSE)
    \/ res = NoResult /\ CalculatePdcFixed(0, MaxDay, 8000, 1, FALSE)

SpecChain == Init /\ [][NextChain]_vars

\* the first fill of SpecGaps, and one that starts with it and ends later
GapFirst == {Interval(1, 1, 0, 0), Interval(1, 1, 0, 2)}

\* start days of one-day fills that leave gaps on both sides of every
\* severity threshold (6 and 7, 13 and 14, 29 and 30, 89 and 90 days after
\* a fill that ends on day 0)
GapStarts == {7, 8, 14, 15, 30, 31, 90, 91}

GapFills == GapFirst \cup {Interval(1, 1, s, s) : s \in GapStarts}

\* min_gap_days values of SpecGaps
MinGapDays == {1, 7}

\* the gap queries of both helpers, and the two aggregations, over fills
\* that share a start date
NextGaps ==
    \/ \E de \in GapFills : InsertFill(de)
    \/ \E m \in MinGapDays : GetDetailedGapsV3(0, Max(GapStarts), m, FALSE)
    \/ \E m \in MinGapDays : GetDetailedGapsFixed(0, Max(GapStarts), m, FALSE)
    \/ CalculatePdcV3(0, Max(GapStarts), 8000, 1, FALSE)
    \/ CalculatePdcFixed(0, Max(GapStarts), 8000, 1, FALSE)

SpecGaps == Init /\ [][NextGaps]_vars

\* fills of SpecEdge: intervals of one group that end on, after and before
\* their start date (two of them the day before it), a fill of a second
\* group, and a fill without start date
EdgeFills ==
    {Interval(1, 1, 0, 0), Interval(1, 1, 0, 2), Interval(1, 1, 3, 5),
     Interval(1, 1, 0, -2), Interval(1, 1, 1, -1), Interval(1, 1, 1, 0),
     Interval(1, 1, 4, 1), Interval(2, 1, 0, 1),
     Fill(1, 1, PrescriptionType, NULL, Some(2), NULL, NULL)}

\* min_treatment_days values of SpecEdge
MinTreatmentDays == {-1, 0, 1, 3}

\* the aggregations over fills at the edges, with every duration filter
NextEdge ==
    \/ \E de \in EdgeFills : InsertFill(de)
    \/ \E m \in MinTreatmentDays : CalculatePdcFixed(0, MaxDay, 8000, m, FALSE)
    \/ \E m \in MinTreatmentDays : CalculatePdcV3(0, MaxDay, 8000, m, FALSE)

SpecEdge == Init /\ [][NextEdge]_vars

\* fills of SpecLookup: three groups
LookupFills ==
    {Interval(1, 1, 0, 0), Interval(1, 1, 0, 2), Interval(1, 2, 1, 2),
     Interval(2, 1, 0, 1), Interval(2, 1, 3, 3)}

\* CONCEPT tables: a 'Drug' concept for every drug, for drug 1 only, a
\* concept of another domain for drug 1, and no concept at all
ConceptTables ==
    {ConceptFull,
     {Concept(1, "drug", "Drug")},
     {Concept(1, "device", "Device"), Concept(2, "drug", "Drug")},
     {}}

InitLookup ==
    /\ db = EmptyBag
    /\ concept \in ConceptTables
    /\ int_cast \in CastModes
    /\ res = NoResult

\* the aggregations over every CONCEPT table
NextLookup ==
    \/ \E de \in LookupFills : InsertFill(de)
    \/ \E m \in {1, 3} : CalculatePdcFixed(0, MaxDay, 8000, m, FALSE)
    \/ \E m \in {1, 3} : CalculatePdcV3(0, MaxDay, 8000, m, FALSE)

SpecLookup == InitLookup /\ [][NextLookup]_vars

\* fills of SpecStatus: a fill of 4 to 9 days from day 0 and a one-day fill
\* on day 9, so that a group of ten days has a pdc of 0.5 to 1.0
StatusFills == {Interval(1, 1, 0, e) : e \in 3..8} \cup {Interval(1, 1, 9, 9)}

\* pdc_threshold values of SpecStatus, in units of 0.0001: the default 0.80
\* and 0.90
Thresholds == {8000, 9000}

\* the aggregations with both thresholds
NextStatus ==
    \/ \E de \in StatusFills : InsertFill(de)
    \/ \E t \in Thresholds : CalculatePdcFixed(0, 9, t, 1, FALSE)
    \/ \E t \in Thresholds : CalculatePdcV3(0, 9, t, 1, FALSE)

SpecStatus == Init /\ [][NextStatus]_vars

\* fills of SpecConn: the fills of three groups, one of them with a
\* days_supply
ConnFills == LookupFills \cup {Fill(1, 1, PrescriptionType, Some(1), NULL, Some(2), NULL)}

\* the operations over a connection that can fail at any collect()
NextConn ==
    \/ \E de \in ConnFills : InsertFill(de)
    \/ \E f \in BOOLEAN : CalculatePdcV3OverConnection(0, MaxDay, 8000, 1, FALSE, f)
    \/ \E k \in 0..Len(InfoKeys) : GetDatabaseInfo(k)

SpecConn == Init /\ [][NextConn]_vars

(***************************************************************************)
(* What the claims read from a result.                                     *)
(***************************************************************************)
IsPdc == res.op \in {"pdc_fixed", "pdc_v3"}

\* the intervals of a group as the query derived them, in (start, end) order
GroupIntervals(k) ==
    LET rows == RowsOf(BagToSeq(res.cleaned), k) IN Sorted(rows, StartEndKeys(rows))

\* every interval of the group has end_date >= start_date
ValidGroup(k) ==
    \A i \in 1..Len(GroupIntervals(k)) :
        GroupIntervals(k)[i].end_date >= GroupIntervals(k)[i].start_date

\* the calendar days inside at least one interval of the group
CoveredDays(k) ==
    LET o == GroupIntervals(k)
    IN  UNION {o[i].start_date..o[i].end_date : i \in 1..Len(o)}

\* The merge pass as a sequential scan: a fill joins the current period
\* exactly when its start <= (largest end seen so far) + 1.
MergeScan(o) ==
    LET F[i \in 0..Len(o)] ==
            IF i = 0 THEN <<>>
            ELSE IF i = 1
                THEN <<[period_start |-> o[1].start_date, period_end |-> o[1].end_date,
                        num_fills |-> 1]>>
            ELSE LET prev == F[i - 1]
                     cur == prev[Len(prev)]
                     seen == Max({o[j].end_date : j \in 1..(i - 1)})
                 IN  IF o[i].start_date <= seen + 1
                         THEN [prev EXCEPT ![Len(prev)] =
                                  [period_start |-> cur.period_start,
                                   period_end |-> GREATEST(cur.period_end, o[i].end_date),
                                   num_fills |-> cur.num_fills + 1]]
                         ELSE Append(prev, [period_start |-> o[i].start_date,
                                            period_end |-> o[i].end_date,
                                            num_fills |-> 1])
    IN  F[Len(o)]

\* the gaps between the consecutive merged periods of a group
PeriodGaps(k) ==
    LET p == MergeScan(GroupIntervals(k))
    IN  Tuple([i \in 1..(Len(p) - 1) |-> p[i + 1].period_start - p[i].period_end - 1])

\* the merged_periods of a group as the merge-based query computed them, in
\* the order in which the walk over the fills closes them
PeriodsOf(k) ==
    LET g == RowsOf(res.gaps, k)
        p == Tuple([i \in 1..Len(g) |->
                 [period_start |-> g[i].period_start, period_end |-> g[i].period_end,
                  num_fills |-> g[i].num_fills]])
    IN  Sorted(p, Tuple([i \in 1..Len(p) |-> <<p[i].period_start, p[i].period_end>>]))

(***************************************************************************)
(* The claims.                                                             *)
(***************************************************************************)
\* C1: in the merge-based variant, for every group whose intervals all have
\* end_date >= start_date, total_gap_days + total_days_covered equals
\* treatment_duration.
C1_MergeGapsAndCoveragePartitionSpan ==
    res.op = "pdc_fixed" =>
        \A i \in 1..Len(res.rows) :
            ValidGroup(GroupKey(res.rows[i])) =>
                res.rows[i].total_gap_days + res.rows[i].total_days_covered
                    = res.rows[i].treatment_duration

\* C1 witness: a group of three valid fills merged into two periods with a
\* gap of more than one day between them.
C1_Witness ==
    /\ res.op = "pdc_fixed"
    /\ \E i \in 1..Len(res.rows) :
          /\ ValidGroup(GroupKey(res.rows[i]))
          /\ res.rows[i].total_fills = 3
          /\ res.rows[i].num_periods = 2
          /\ res.rows[i].total_gap_days >= 2

\* C2: in the LAG-based variant, for every group whose intervals all have
\* end_date >= start_date (nested intervals included), SUM(gap_days) +
\* SUM(adjusted_days_covered) equals treatment_duration.
C2_LagGapsAndCoveragePartitionSpan ==
    res.op = "pdc_v3" =>
        \A i \in 1..Len(res.rows) :
            ValidGroup(GroupKey(res.rows[i])) =>
                res.rows[i].total_gap_days + res.rows[i].total_days_covered
                    = res.rows[i].treatment_duration

\* C3: in both variants, total_days_covered <= treatment_duration for every
\* output group whose intervals all have end_date >= start_date.
C3_CoveredWithinDuration ==
    IsPdc =>
        \A i \in 1..Len(res.rows) :
            ValidGroup(GroupKey(res.rows[i])) =>
                res.rows[i].total_days_covered <= res.rows[i].treatment_duration

\* C4: total_days_covered of a group is the number of distinct calendar days
\* inside at least one of its intervals, in both variants, however the
\* intervals overlap.
C4_CoveredIsDistinctDays ==
    IsPdc =>
        \A i \in 1..Len(res.rows) :
            ValidGroup(GroupKey(res.rows[i])) =>
                res.rows[i].total_days_covered
                    = Cardinality(CoveredDays(GroupKey(res.rows[i])))

\* C5: the merged periods of the merge-based variant are those of the
\* sequential scan in (start_date, end_date) order that joins a fill to the
\* current period exactly when its start <= (largest end seen so far) + 1;
\* a group merged into one period has no gaps, and each period starts at
\* least two days after the end of the period before it.
C5_MergeRule ==
    res.op = "pdc_fixed" =>
        /\ \A k \in {GroupKey(res.gaps[i]) : i \in 1..Len(res.gaps)} :
              /\ PeriodsOf(k) = MergeScan(GroupIntervals(k))
              /\ \A i \in 1..(Len(PeriodsOf(k)) - 1) :
                    PeriodsOf(k)[i + 1].period_start >= PeriodsOf(k)[i].period_end + 2
        /\ \A i \in 1..Len(res.rows) :
              Len(PeriodsOf(GroupKey(res.rows[i]))) = 1 =>
                  res.rows[i].num_gaps = 0 /\ res.rows[i].total_gap_days = 0

\* C5 witness: two adjacent fills (the second starts the day after the first
\* ends) merged into one period, followed by a second period.
C5_Witness ==
    /\ res.op = "pdc_fixed"
    /\ \E k \in {GroupKey(res.gaps[i]) : i \in 1..Len(res.gaps)} :
          LET o == GroupIntervals(k)
          IN  /\ Len(o) = 3
              /\ o[1].end_date >= o[1].start_date
              /\ o[2].start_date = o[1].end_date + 1
              /\ Len(PeriodsOf(k)) = 2
              /\ PeriodsOf(k)[1].num_fills = 2
              /\ PeriodsOf(k)[1].period_end = o[2].end_date

\* C6: num_gaps, total_gap_days and max_gap_days of a row are the count, sum
\* and maximum of the gaps between the consecutive merged periods of the
\* group, each gap >= 1, in both variants.
C6_GapStatistics ==
    IsPdc =>
        \A i \in 1..Len(res.rows) :
            LET k == GroupKey(res.rows[i])
                gaps == PeriodGaps(k)
            IN  ValidGroup(k) =>
                    /\ \A j \in 1..Len(gaps) : gaps[j] >= 1
                    /\ res.rows[i].num_gaps = Len(gaps)
                    /\ res.rows[i].total_gap_days = SumSeq(gaps)
                    /\ res.rows[i].max_gap_days
                         = Max({0} \cup {gaps[j] : j \in 1..Len(gaps)})

(***************************************************************************)
(* The end-date chain, as the claims state it.                             *)
(***************************************************************************)
IsV3 == res.op \in {"exposures_v3", "pdc_v3", "gaps_v3"}

IsQuery == res.op \in {"exposures_v3", "pdc_v3", "gaps_v3", "pdc_fixed"}

\* the fills the query of the result selected
SelectedFills == Selected(db, res.start_date, res.end_date, res.filter_drug_type)

\* the drug median the variant of the result uses (the merge-based helper
\* has none)
MedianFor(de) == IF IsV3 THEN DrugMedianSupply(db, de.drug_concept_id) ELSE NULL

IntervalRow(p, d, s, e) ==
    [person_id |-> p, drug_concept_id |-> d, start_date |-> s, end_date |-> e]

\* the (person, drug, start, end) intervals in the result
ResultIntervals ==
    LET r == BagToSeq(IF res.op = "exposures_v3" THEN res.rows ELSE res.cleaned)
    IN  SeqToBag([i \in 1..Len(r) |->
            IntervalRow(r[i].person_id, r[i].drug_concept_id, r[i].start_date,
                        IF res.op = "exposures_v3" THEN r[i].calculated_end_date
                        ELSE r[i].end_date)])

\* the branch of the first-match chain a fill takes
ChainBranch(de, dms) ==
    IF NotNull(de.drug_exposure_end_date) THEN "actual_end_date"
    ELSE IF NotNull(de.days_supply) /\ Val(de.days_supply) > 0 THEN "days_supply"
    ELSE IF NotNull(de.refills) /\ Val(de.refills) > 0 THEN "refills"
    ELSE IF NotNull(dms) THEN "drug_median"
    ELSE "default_30"

\* the end date of a branch
BranchEnd(branch, start, de, dms) ==
    IF branch = "actual_end_date" THEN Val(de.drug_exposure_end_date)
    ELSE IF branch = "days_supply" THEN start + Val(de.days_supply) - 1
    ELSE IF branch = "refills" THEN start + Val(de.refills) * 30 - 1
    ELSE IF branch = "drug_median" THEN start + ToInteger(Val(dms) - 2, int_cast)
    ELSE start + 29

ChainEnd(de, dms) ==
    BranchEnd(ChainBranch(de, dms), Val(de.drug_exposure_start_date), de, dms)

\* a days_supply or refills value of 0 or less, taken as absent
Absent(x) == IF NotNull(x) /\ Val(x) <= 0 THEN NULL ELSE x

\* the chain over presence alone: which field is there, whatever its value
PresenceBranch(de, dms) ==
    IF NotNull(de.drug_exposure_end_date) THEN "actual_end_date"
    ELSE IF NotNull(de.days_supply) THEN "days_supply"
    ELSE IF NotNull(de.refills) THEN "refills"
    ELSE IF NotNull(dms) THEN "drug_median"
    ELSE "default_30"

\* the interval of a fill whose non-positive fields are taken as absent
FallThroughInterval(de) ==
    LET t == [de EXCEPT !.days_supply = Absent(@), !.refills = Absent(@)]
        dms == MedianFor(de)
        s == Val(de.drug_exposure_start_date)
    IN  IntervalRow(de.person_id, de.drug_concept_id, s,
                    BranchEnd(PresenceBranch(t, dms), s, t, dms))

\* C7: every query of the v3 analyzer derives a fill's end_date by the same
\* first-match chain (explicit end date, days_supply > 0, refills > 0, drug
\* median, 30-day default), so a fill has the same end_date in all three.
C7_SameChainInEveryQuery ==
    IsV3 =>
        ResultIntervals
            = SeqToBag([i \in 1..Len(SelectedFills) |->
                  IntervalRow(SelectedFills[i].person_id, SelectedFills[i].drug_concept_id,
                              Val(SelectedFills[i].drug_exposure_start_date),
                              ChainEnd(SelectedFills[i],
                                       DrugMedianSupply(db, SelectedFills[i].drug_concept_id)))])

\* C7 witness: get_detailed_gaps has run on a table with a fill that has an
\* explicit end date and a positive days_supply, and a fill of the same drug
\* that takes the drug-median branch.
C7_Witness ==
    /\ res.op = "gaps_v3"
    /\ \E a, b \in BagToSet(db) :
          /\ a.drug_concept_id = b.drug_concept_id
          /\ NotNull(a.drug_exposure_end_date)
          /\ NotNull(a.days_supply)
          /\ ChainBranch(b, DrugMedianSupply(db, b.drug_concept_id)) = "drug_median"

\* C8: a fill without explicit end date whose days_supply or refills is 0
\* or negative is treated as not having that field: its interval is the one
\* of the next branch, and no interval with end_date < start_date comes
\* from those fields.
C8_NonPositiveTreatedAsAbsent ==
    IsQuery =>
        /\ ResultIntervals
             = SeqToBag([i \in 1..Len(SelectedFills) |-> FallThroughInterval(SelectedFills[i])])
        /\ \A i \in 1..Len(SelectedFills) :
              IsNull(SelectedFills[i].drug_exposure_end_date) =>
                  FallThroughInterval(SelectedFills[i]).end_date
                      >= FallThroughInterval(SelectedFills[i]).start_date

\* C8 witness: calculate_pdc_server_side of v3 has run on a fill with no
\* end date, a days_supply of 0 or less and a refills of 0 or less, of a
\* drug that has a median.
C8_Witness ==
    /\ res.op = "pdc_v3"
    /\ \E de \in BagToSet(db) :
          /\ IsNull(de.drug_exposure_end_date)
          /\ NotNull(de.days_supply) /\ Val(de.days_supply) <= 0
          /\ NotNull(de.refills) /\ Val(de.refills) <= 0
          /\ NotNull(DrugMedianSupply(db, de.drug_concept_id))

\* C9: every interval the end-date chain produces has end_date >=
\* start_date, also when the explicit end date is taken as it is.
C9_EndNotBeforeStart ==
    IsQuery =>
        \A r \in BagToSet(ResultIntervals) : r.end_date >= r.start_date

\* C10: in get_drug_exposures the imputation_method of a row names the
\* branch that produced calculated_end_date and days_covered, so that
\* days_covered = calculated_end_date - start_date + 1 under every tag.
C10_TagNamesBranch ==
    res.op = "exposures_v3" =>
        \A r \in BagToSet(res.rows) :
            /\ r.imputation_method = ChainBranch(r, r.median_days_supply_x2)
            /\ r.calculated_end_date
                 = BranchEnd(r.imputation_method, r.start_date, r, r.median_days_supply_x2)
            /\ r.days_covered_x2 = 2 * (r.calculated_end_date - r.start_date + 1)

(***************************************************************************)
(* Order of presentation, repetition, filters and lookups.                 *)
(***************************************************************************)
\* Every row set the operation of the result can return on the table with
\* the parameters of the result: the database may present the rows of the
\* table, and so the rows that tie in an ORDER BY, in any order.
RowsOutcomes ==
    IF res.op = "pdc_fixed"
        THEN {o.rows : o \in PdcFixedOutcomes(db, concept, res.start_date, res.end_date,
                                 res.pdc_threshold, res.min_treatment_days,
                                 res.filter_drug_type)}
    ELSE IF res.op = "pdc_v3"
        THEN {PdcV3Outcome(db, concept, int_cast, res.start_date, res.end_date,
                           res.pdc_threshold, res.min_treatment_days,
                           res.filter_drug_type).rows}
    ELSE IF res.op = "gaps_fixed"
        THEN {o.rows : o \in GapsFixedOutcomes(db, concept, res.start_date, res.end_date,
                                 res.min_gap_days, res.filter_drug_type)}
    ELSE IF res.op = "gaps_v3"
        THEN {o.rows : o \in GapsV3Outcomes(db, concept, int_cast, res.start_date,
                                 res.end_date, res.min_gap_days, res.filter_drug_type)}
    ELSE {}

\* C11: the rows calculate_pdc_server_side and get_detailed_gaps return do
\* not depend on the order in which the database presents the fills of a
\* group (fills that share a start_date and differ in end_date included):
\* the rows returned are the only rows the operation can return.
C11_OrderIndependent ==
    res.op \in {"pdc_fixed", "pdc_v3", "gaps_fixed", "gaps_v3"} =>
        RowsOutcomes = {res.rows}

\* C12: calculate_pdc_server_side evaluated again on the same table with
\* the same parameters returns what it returned before: the same periods
\* and gap values and the same rows (pdc included).
C12_SameResultOnRepetition ==
    [][(/\ IsPdc
        /\ res'.op = res.op
        /\ res'.start_date = res.start_date
        /\ res'.end_date = res.end_date
        /\ res'.pdc_threshold = res.pdc_threshold
        /\ res'.min_treatment_days = res.min_treatment_days
        /\ res'.filter_drug_type = res.filter_drug_type
        /\ db' = db)
            => res' = res]_vars

\* the groups of the intervals the query derived
ResultGroups ==
    LET c == BagToSeq(res.cleaned) IN {GroupKey(c[i]) : i \in 1..Len(c)}

\* the span of a group: first start date to last end date
GroupDuration(k) ==
    LET o == GroupIntervals(k)
    IN  Max({o[i].end_date : i \in 1..Len(o)}) - Min({o[i].start_date : i \in 1..Len(o)}) + 1

\* the rows of the result for a group
RowsFor(k) == {i \in 1..Len(res.rows) : GroupKey(res.rows[i]) = k}

\* C13: a group is in the output of calculate_pdc_server_side only if its
\* treatment_duration >= min_treatment_days; a group below min_treatment_days
\* has no row at all.
C13_BelowMinimumExcluded ==
    IsPdc =>
        /\ \A i \in 1..Len(res.rows) :
              /\ res.rows[i].treatment_duration = GroupDuration(GroupKey(res.rows[i]))
              /\ res.rows[i].treatment_duration >= res.min_treatment_days
        /\ \A k \in ResultGroups :
              GroupDuration(k) < res.min_treatment_days => RowsFor(k) = {}

\* C13 witness: of two groups, the one with 3 days has a row and the one
\* with 2 days has none, with min_treatment_days = 3.
C13_Witness ==
    /\ IsPdc
    /\ res.min_treatment_days = 3
    /\ \E k1, k2 \in ResultGroups :
          /\ GroupDuration(k1) = 3 /\ RowsFor(k1) # {}
          /\ GroupDuration(k2) = 2 /\ RowsFor(k2) = {}

\* C14: calculate_pdc_server_side returns exactly one row for every group
\* with treatment_duration >= min_treatment_days and none for the others,
\* whatever the CONCEPT table holds.
C14_OneRowPerQualifyingGroup ==
    IsPdc =>
        \A k \in ResultGroups :
            Cardinality(RowsFor(k))
                = IF GroupDuration(k) >= res.min_treatment_days THEN 1 ELSE 0

\* C15: with threshold T a row is 'Adherent' iff pdc >= T, 'Moderately
\* Adherent' iff T - 0.1 <= pdc < T and 'Non-Adherent' otherwise; a pdc of
\* exactly T - 0.1 is 'Moderately Adherent'.
C15_StatusByThreshold ==
    IsPdc =>
        \A i \in 1..Len(res.rows) :
            res.rows[i].adherence_status
                = IF res.rows[i].pdc >= res.pdc_threshold THEN "Adherent"
                  ELSE IF res.rows[i].pdc >= res.pdc_threshold - 1000
                      THEN "Moderately Adherent"
                  ELSE "Non-Adherent"

IsGaps == res.op \in {"gaps_fixed", "gaps_v3"}

\* C16: every gap row of get_detailed_gaps has the severity of its gap_days:
\* Critical for 90 and more, Major for 30-89, Moderate for 14-29, Minor for
\* 7-13, Minimal below 7, whatever min_gap_days is.
C16_SeverityByGapDays ==
    IsGaps =>
        \A i \in 1..Len(res.rows) :
            LET g == res.rows[i].gap_days
                sev == res.rows[i].gap_severity
            IN  \/ g >= 90 /\ sev = "Critical Gap (90+ days)"
                \/ g \in 30..89 /\ sev = "Major Gap (30-89 days)"
                \/ g \in 14..29 /\ sev = "Moderate Gap (14-29 days)"
                \/ g \in 7..13 /\ sev = "Minor Gap (7-13 days)"
                \/ g < 7 /\ sev = "Minimal Gap (<7 days)"

\* C16 witness: with min_gap_days = 1, a result with a gap of 6 days
\* (Minimal) and a gap of 30 days or more (Major).
C16_Witness ==
    /\ IsGaps
    /\ res.min_gap_days = 1
    /\ \E i, j \in 1..Len(res.rows) :
          /\ res.rows[i].gap_days = 6
          /\ res.rows[i].gap_severity = "Minimal Gap (<7 days)"
          /\ res.rows[j].gap_days >= 30
          /\ res.rows[j].gap_severity = "Major Gap (30-89 days)"

\* C17: every pdc in the output of calculate_pdc_server_side lies in [0, 1],
\* in both helpers and for every table (fills that overlap and fills whose
\* explicit end date precedes the start date included).
C17_PdcInUnitInterval ==
    IsPdc =>
        \A i \in 1..Len(res.rows) :
            res.rows[i].pdc >= 0 /\ res.rows[i].pdc <= 10000

\* C18: a group whose treatment_duration is 0 or negative has a pdc of 0,
\* also when min_treatment_days <= 0 lets the group through the filter.
C18_NoDurationNoPdc ==
    IsPdc =>
        \A i \in 1..Len(res.rows) :
            res.rows[i].treatment_duration <= 0 => res.rows[i].pdc = 0

\* C18 witness: with min_treatment_days = 0 the output has a group whose
\* treatment_duration is 0.
C18_Witness ==
    /\ IsPdc
    /\ res.min_treatment_days = 0
    /\ \E i \in 1..Len(res.rows) : res.rows[i].treatment_duration = 0

\* the table without the fills that have no start date
WithStartDate ==
    LET HasStart(de) == NotNull(de.drug_exposure_start_date)
    IN  SeqToBag(SelectSeq(BagToSeq(db), HasStart))

\* C19: a fill without start_date is excluded and reported: the result of
\* calculate_pdc_server_side on a table that holds such fills tells them
\* apart from the table without them.
C19_MissingStartReported ==
    (IsPdc /\ WithStartDate # db) =>
        res \notin
            IF res.op = "pdc_fixed"
                THEN PdcFixedOutcomes(WithStartDate, concept, res.start_date, res.end_date,
                                      res.pdc_threshold, res.min_treatment_days,
                                      res.filter_drug_type)
                ELSE {PdcV3Outcome(WithStartDate, concept, int_cast, res.start_date,
                                   res.end_date, res.pdc_threshold, res.min_treatment_days,
                                   res.filter_drug_type)}

(***************************************************************************)
(* Failures of the connection.                                             *)
(***************************************************************************)
\* C20: when the connection's sql(query).collect() raises during an
\* operation of the analyzer (execute_query and the operations built on it,
\* get_database_info), that exception reaches the caller and nothing is
\* returned.
C20_ConnectionErrorReachesCaller ==
    (res.op \in {"execute_query", "get_database_info"} /\ res.conn_raised # 0) =>
        res.raised = Some(CollectError) /\ IsNull(res.returned)

(***************************************************************************)
(* The drug median across persons, date ranges and the drug-type filter.   *)
(***************************************************************************)
\* a drug_type_concept_id the optional filter drops
OtherType == PrescriptionType - 1

\* a fill of drug 1 without end date and without refills
Dispensed(p, t, s, ds) == Fill(p, 1, t, Some(s), NULL, ds, NULL)

\* fills of SpecMedian: fills of person 1 that have no days_supply (they take
\* the drug median, or 30 days when the drug has none), and fills of both
\* persons with a days_supply, inside and outside the narrow date range and
\* the drug-type filter
MedianFills ==
    {Dispensed(1, PrescriptionType, 0, NULL), Dispensed(1, PrescriptionType, 1, NULL),
     Dispensed(1, PrescriptionType, 0, Some(2)), Dispensed(1, OtherType, 0, Some(4)),
     Dispensed(1, PrescriptionType, 4, Some(4)),
     Dispensed(2, PrescriptionType, 0, Some(2)), Dispensed(2, PrescriptionType, 0, Some(3)),
     Dispensed(2, OtherType, 0, Some(4)), Dispensed(2, PrescriptionType, 4, Some(4)),
     Dispensed(2, PrescriptionType, 0, NULL)}

\* <<start_date, end_date, filter_drug_type>> of the queries of SpecMedian
MedianQueries == {<<0, MaxDay, FALSE>>, <<0, 2, FALSE>>, <<0, MaxDay, TRUE>>}

\* the v3 queries that impute from the drug median, over every date range
\* and filter
NextMedian ==
    \/ \E de \in MedianFills : InsertFill(de)
    \/ \E q \in MedianQueries : CalculatePdcV3(q[1], q[2], 8000, 1, q[3])
    \/ \E q \in MedianQueries : GetDetailedGapsV3(q[1], q[2], 1, q[3])

SpecMedian == Init /\ [][NextMedian]_vars

\* the fills of one person
FillsOfPerson(p) ==
    LET Own(de) == de.person_id = p IN SeqToBag(SelectSeq(BagToSeq(db), Own))

\* the rows of a person in a sequence of result rows
RowsOfPerson(rows, p) == LET Own(r) == r.person_id = p IN SelectSeq(rows, Own)

\* C21: the row v3 calculate_pdc_server_side returns for a (person, drug)
\* group does not depend on the fills of other persons: it is the row the
\* query returns on the table that holds that person's fills alone.
C21_GroupsIndependent ==
    res.op = "pdc_v3" =>
        \A p \in {de.person_id : de \in BagToSet(db)} :
            RowsOfPerson(res.rows, p)
                = RowsOfPerson(PdcV3Outcome(FillsOfPerson(p), concept, int_cast,
                                            res.start_date, res.end_date,
                                            res.pdc_threshold, res.min_treatment_days,
                                            res.filter_drug_type).rows, p)

\* the median of the days_supply of every record of the drug that has one
\* above 0, doubled; NULL when there is none
MedianOverAll(drug) ==
    LET t == BagToSeq(db)
        Counted(de) ==
            de.drug_concept_id = drug /\ NotNull(de.days_supply) /\ Val(de.days_supply) > 0
        rows == SelectSeq(t, Counted)
    IN  IF rows = <<>> THEN NULL
        ELSE Some(MedianX2([i \in 1..Len(rows) |-> Val(rows[i].days_supply)]))

\* the days_supply column calculate_pdc_server_side derives for a fill from
\* the median m (doubled)
SupplyFrom(de, m) ==
    IF NotNull(de.days_supply) /\ Val(de.days_supply) > 0 THEN 2 * Val(de.days_supply)
    ELSE IF NotNull(de.refills) /\ Val(de.refills) > 0 THEN 60 * Val(de.refills)
    ELSE IF NotNull(m) THEN Val(m)
    ELSE 60

\* C22: the drug median v3 calculate_pdc_server_side and get_detailed_gaps
\* impute from is the median over all DRUG_EXPOSURE records of the drug with
\* days_supply > 0, whatever the date range and filter_drug_type of the
\* query: every selected fill has the end date (and, in
\* calculate_pdc_server_side, the days_supply) that median gives.
C22_MedianOverAllRecords ==
    res.op \in {"pdc_v3", "gaps_v3"} =>
        /\ ResultIntervals
             = SeqToBag([i \in 1..Len(SelectedFills) |->
                   IntervalRow(SelectedFills[i].person_id, SelectedFills[i].drug_concept_id,
                               Val(SelectedFills[i].drug_exposure_start_date),
                               ChainEnd(SelectedFills[i],
                                        MedianOverAll(SelectedFills[i].drug_concept_id)))])
        /\ res.op = "pdc_v3" =>
              LET c == BagToSeq(res.cleaned)
              IN  SeqToBag([i \in 1..Len(c) |-> c[i].days_supply_x2])
                    = SeqToBag([i \in 1..Len(SelectedFills) |->
                          SupplyFrom(SelectedFills[i],
                                     MedianOverAll(SelectedFills[i].drug_concept_id))])

\* C22 witness: calculate_pdc_server_side has run with a narrow date range
\* or the drug-type filter on a fill that takes the drug median, and the
\* median over the selected fills alone would give it another end date.
C22_Witness ==
    /\ res.op = "pdc_v3"
    /\ (res.filter_drug_type \/ res.end_date < MaxDay)
    /\ \E i \in 1..Len(SelectedFills) :
          LET de == SelectedFills[i]
              all == MedianOverAll(de.drug_concept_id)
              sel == DrugMedianSupply(SeqToBag(SelectedFills), de.drug_concept_id)
          IN  /\ ChainBranch(de, all) = "drug_median"
              /\ ChainEnd(de, sel) # ChainEnd(de, all)

(***************************************************************************)
(* The rows of get_detailed_gaps.                                          *)
(***************************************************************************)
\* fills of SpecPairs: one group with one-day fills one, two and three days
\* apart, a fill that contains two of them, two fills that share a start
\* date, and a fill that ends before it starts; and a second group
PairFills ==
    {Interval(1, 1, 0, 0), Interval(1, 1, 0, 3), Interval(1, 1, 1, 1),
     Interval(1, 1, 2, 2), Interval(1, 1, 3, 3), Interval(1, 1, 5, 5),
     Interval(1, 1, 2, 0), Interval(2, 1, 0, 1), Interval(2, 1, 4, 4)}

\* min_gap_days values of SpecPairs
PairMinGapDays == {-1, 0, 1, 2}

\* the gap queries of both helpers with every min_gap_days
NextPairs ==
    \/ \E de \in PairFills : InsertFill(de)
    \/ \E m \in PairMinGapDays : GetDetailedGapsV3(0, MaxDay, m, FALSE)
    \/ \E m \in PairMinGapDays : GetDetailedGapsFixed(0, MaxDay, m, FALSE)

SpecPairs == Init /\ [][NextPairs]_vars

\* the gap rows of the result for a group, as <<start and end of the fill
\* before the gap, start of the fill after it, gap_days>>
GapRowsFor(k) ==
    LET rows == RowsOf(res.rows, k)
    IN  Tuple([i \in 1..Len(rows) |->
            <<rows[i].fill_before_gap_date, rows[i].fill_before_gap_end_date,
              rows[i].fill_after_gap_date, rows[i].gap_days>>])

\* one row for each pair of consecutive fills of o that are at least min
\* days apart
PairsApart(o, min) ==
    LET Apart(i) == o[i + 1].start_date - o[i].end_date - 1
        Pair(i) == IF Apart(i) >= min
                       THEN <<<<o[i].start_date, o[i].end_date, Some(o[i + 1].start_date),
                                Apart(i)>>>>
                       ELSE <<>>
    IN  Flatten([i \in 1..(Len(o) - 1) |-> Pair(i)])

\* C23: for min_gap_days >= 1, get_detailed_gaps returns exactly one row for
\* each pair of consecutive fills of a group, in start_date order, whose gap
\* next_start - end - 1 is >= min_gap_days, and no other row.
C23_OneRowPerGap ==
    (IsGaps /\ res.min_gap_days >= 1) =>
        \A k \in ResultGroups :
            \E o \in Orderings(GroupIntervals(k), StartKeys(GroupIntervals(k))) :
                GapRowsFor(k) = PairsApart(o, res.min_gap_days)

\* C23 witness: v3 get_detailed_gaps with min_gap_days = 2 on a group of
\* three fills, one day and two days apart, has returned the one row of the
\* second pair.
C23_Witness ==
    /\ res.op = "gaps_v3"
    /\ res.min_gap_days = 2
    /\ \E k \in ResultGroups :
          LET o == GroupIntervals(k)
          IN  /\ Len(o) = 3
              /\ o[2].start_date - o[1].end_date - 1 = 1
              /\ o[3].start_date - o[2].end_date - 1 = 2
              /\ Len(GapRowsFor(k)) = 1
              /\ GapRowsFor(k)[1][4] = 2

\* C25: no day from gap_start_date to gap_end_date of a gap row is inside an
\* interval of the same group, an earlier fill that extends past the end of
\* the fill before the gap included.
C25_GapDaysUncovered ==
    IsGaps =>
        \A i \in 1..Len(res.rows) :
            NotNull(res.rows[i].gap_end_date) =>
                \A d \in Val(res.rows[i].gap_start_date)..Val(res.rows[i].gap_end_date) :
                    d \notin CoveredDays(GroupKey(res.rows[i]))

\* C28: every row of get_detailed_gaps, for any min_gap_days, has a
\* following fill, gap_start_date <= gap_end_date, and gap_days equal to the
\* number of days from gap_start_date to gap_end_date inclusive.
C28_GapRowWellFormed ==
    IsGaps =>
        \A i \in 1..Len(res.rows) :
            /\ NotNull(res.rows[i].fill_after_gap_date)
            /\ NotNull(res.rows[i].gap_end_date)
            /\ Val(res.rows[i].gap_start_date) <= Val(res.rows[i].gap_end_date)
            /\ res.rows[i].gap_days
                 = Val(res.rows[i].gap_end_date) - Val(res.rows[i].gap_start_date) + 1

(***************************************************************************)
(* The summary row of a group.                                             *)
(***************************************************************************)
\* C24: a group whose fills (each with end_date >= start_date) form a
\* single merged period of length >= min_treatment_days is reported with
\* num_gaps = 0, total_gap_days = 0, pdc = 1.0 and status 'Adherent', in
\* both variants.
C24_SinglePeriodFullyAdherent ==
    IsPdc =>
        \A i \in 1..Len(res.rows) :
            LET p == MergeScan(GroupIntervals(GroupKey(res.rows[i])))
            IN  (/\ ValidGroup(GroupKey(res.rows[i]))
                 /\ Len(p) = 1
                 /\ p[1].period_end - p[1].period_start + 1 >= res.min_treatment_days
                 /\ res.pdc_threshold <= 10000)
                    => /\ res.rows[i].num_gaps = 0
                       /\ res.rows[i].total_gap_days = 0
                       /\ res.rows[i].pdc = 10000
                       /\ res.rows[i].adherence_status = "Adherent"

\* the (start, end) pairs of a group in a bag of derived intervals, in
\* (start, end) order
StartEndPairs(cleaned, k) ==
    LET rows == RowsOf(BagToSeq(cleaned), k)
        o == Sorted(rows, StartEndKeys(rows))
    IN  Tuple([i \in 1..Len(o) |-> <<o[i].start_date, o[i].end_date>>])

\* the intervals of the group overlap partially at most: each has end_date
\* >= start_date and, in (start, end) order, the end dates do not decrease
PartialOverlapsOnly(k) ==
    /\ ValidGroup(k)
    /\ \A i, j \in 1..Len(GroupIntervals(k)) :
          i < j => GroupIntervals(k)[i].end_date <= GroupIntervals(k)[j].end_date

\* the columns both accountings report
Accounting(r) ==
    <<r.total_days_covered, r.treatment_duration, r.num_gaps, r.total_gap_days,
      r.max_gap_days, r.pdc>>

\* C26: for a group whose intervals have end_date >= start_date and end
\* dates that do not decrease in (start_date, end_date) order, the
\* merge-based and the LAG-based variant report the same total_days_covered,
\* treatment_duration, num_gaps, total_gap_days, max_gap_days and pdc.
C26_VariantsAgreeOnPartialOverlaps ==
    res.op = "pdc_v3" =>
        \A out \in PdcFixedOutcomes(db, concept, res.start_date, res.end_date,
                                    res.pdc_threshold, res.min_treatment_days,
                                    res.filter_drug_type) :
            \A i \in 1..Len(res.rows) :
                LET k == GroupKey(res.rows[i])
                    fixed == RowsOf(out.rows, k)
                IN  (/\ PartialOverlapsOnly(k)
                     /\ StartEndPairs(out.cleaned, k) = StartEndPairs(res.cleaned, k))
                        => /\ Len(fixed) = 1
                           /\ Accounting(fixed[1]) = Accounting(res.rows[i])

\* C26 witness: the LAG-based variant has run on a group of three fills, the
\* second overlapping the first in part and ending after it, the third after
\* a gap.
C26_Witness ==
    /\ res.op = "pdc_v3"
    /\ \E i \in 1..Len(res.rows) :
          LET k == GroupKey(res.rows[i])
              o == GroupIntervals(k)
          IN  /\ PartialOverlapsOnly(k)
              /\ Len(o) = 3
              /\ o[2].start_date > o[1].start_date
              /\ o[2].start_date <= o[1].end_date
              /\ o[2].end_date > o[1].end_date
              /\ o[3].start_date > o[2].end_date + 1
              /\ res.rows[i].num_gaps = 1

\* C29: in every summary row of the merge-based variant, for a group whose
\* intervals have end_date >= start_date: num_periods = num_gaps + 1,
\* total_fills is the number of the group's fill records in the date range,
\* max_gap_days <= total_gap_days, and max_gap_days = 0 exactly when
\* num_gaps = 0.
C29_SummaryRowConsistent ==
    res.op = "pdc_fixed" =>
        \A i \in 1..Len(res.rows) :
            ValidGroup(GroupKey(res.rows[i])) =>
                /\ res.rows[i].num_periods = res.rows[i].num_gaps + 1
                /\ res.rows[i].total_fills
                     = Len(RowsOf(SelectedFills, GroupKey(res.rows[i])))
                /\ res.rows[i].max_gap_days <= res.rows[i].total_gap_days
                /\ res.rows[i].max_gap_days = 0 <=> res.rows[i].num_gaps = 0

\* C29 witness: a group of three fills in three periods, with two gaps of
\* different lengths.
C29_Witness ==
    /\ res.op = "pdc_fixed"
    /\ \E i \in 1..Len(res.rows) :
          /\ ValidGroup(GroupKey(res.rows[i]))
          /\ res.rows[i].total_fills = 3
          /\ res.rows[i].num_periods = 3
          /\ res.rows[i].num_gaps = 2
          /\ res.rows[i].max_gap_days < res.rows[i].total_gap_days

(***************************************************************************)
(* The reported pdc and the reported status.                               *)
(***************************************************************************)
\* fills of SpecClamp: a fill with two fills inside it (the LAG-based sum
\* counts more days than the span has), a fill that ends three days before
\* it starts (the sum is negative), and fills that cover 6 or 8 of 10 days
ClampFills ==
    {Interval(1, 1, 0, 3), Interval(1, 1, 1, 1), Interval(1, 1, 2, 3),
     Interval(1, 1, 0, -3), Interval(1, 1, 0, 5), Interval(1, 1, 0, 7),
     Interval(1, 1, 9, 9), Interval(2, 1, 0, 1)}

\* pdc_threshold values of SpecClamp, in units of 0.0001: 0.10, the default
\* 0.80, and 1.10
ClampThresholds == {1000, 8000, 11000}

\* the LAG-based aggregation with every threshold
NextClamp ==
    \/ \E de \in ClampFills : InsertFill(de)
    \/ \E t \in ClampThresholds : CalculatePdcV3(0, 9, t, 1, FALSE)

SpecClamp == Init /\ [][NextClamp]_vars

\* the threshold rule: the bucket of a pdc value under threshold t
Bucket(pdc, t) ==
    IF pdc >= t THEN "Adherent"
    ELSE IF pdc >= t - 1000 THEN "Moderately Adherent"
    ELSE "Non-Adherent"

\* C27: in every output row of v3 calculate_pdc_server_side the
\* adherence_status is the bucket of the pdc reported in the same row (the
\* value after clamping to [0, 1]), for every pdc_threshold and input.
C27_StatusMatchesReportedPdc ==
    res.op = "pdc_v3" =>
        \A i \in 1..Len(res.rows) :
            res.rows[i].adherence_status = Bucket(res.rows[i].pdc, res.pdc_threshold)

(***************************************************************************)
(* airms_helper.py: get_summary_statistics.                                *)
(***************************************************************************)
\* the default of min_treatment_days, which get_summary_statistics leaves
\* in place
DefaultMinTreatmentDays == 30

\* calculate_pdc_server_side of airms_helper.py: the merge-based query with
\* the drug-type condition always in its WHERE
PdcOriginalOutcomes(table, tbl, start_date, end_date, pdc_threshold, min_treatment_days) ==
    PdcFixedOutcomes(table, tbl, start_date, end_date, pdc_threshold, min_treatment_days, TRUE)

\* bins and labels of pd.cut, the edges in units of 0.0001
PdcBinEdges == <<0, 5000, 6000, 7000, 8000, 9000, 10000>>

PdcBinLabels == <<"<50%", "50-59%", "60-69%", "70-79%", "80-89%", "90-100%">>

\* where the binary floating-point value of an edge lies with respect to
\* the decimal it is written as: 0.6 and 0.7 below, 0.8 and 0.9 above
FloatSide(edge) ==
    IF edge \in {6000, 7000} THEN -1 ELSE IF edge \in {8000, 9000} THEN 1 ELSE 0

\* pdc <= edge, for a pdc column of floats (the same float as the edge when
\* the decimals are equal) or of Decimal objects (compared exactly with the
\* float of the edge)
LeEdge(pdc, edge, pdc_as) ==
    pdc < edge \/ (pdc = edge /\ (pdc_as = "float" \/ FloatSide(edge) >= 0))

\* pd.cut(pdc, bins, labels) with right=True and include_lowest=False: the
\* label of the bin (edge[i], edge[i + 1]] that holds pdc, NULL (NaN) when
\* none does
Cut(pdc, pdc_as) ==
    LET In(i) == ~LeEdge(pdc, PdcBinEdges[i], pdc_as) /\ LeEdge(pdc, PdcBinEdges[i + 1], pdc_as)
    IN  IF \E i \in 1..Len(PdcBinLabels) : In(i)
            THEN Some(PdcBinLabels[CHOOSE i \in 1..Len(PdcBinLabels) : In(i)])
            ELSE NULL

\* .value_counts().sort_index(): the number of rows under every label, NaN
\* not counted
PdcDistribution(rows, pdc_as) ==
    [l \in {PdcBinLabels[i] : i \in 1..Len(PdcBinLabels)} |->
        Cardinality({i \in 1..Len(rows) : Cut(rows[i].pdc, pdc_as) = Some(l)})]

\* overall_stats; a mean is held as <<sum, count>>, a percentage as
\* <<count, of>>, the median doubled
OverallStats(rows) ==
    LET n == Len(rows)
        adherent == Cardinality({i \in 1..n : rows[i].adherence_status = "Adherent"})
    IN  [total_patients |-> Cardinality({rows[i].person_id : i \in 1..n}),
         total_patient_drug_combinations |-> n,
         adherent_count |-> adherent,
         adherent_percentage |-> <<adherent, n>>,
         avg_pdc |-> <<SumSeq([i \in 1..n |-> rows[i].pdc]), n>>,
         median_pdc_x2 |-> IF n = 0 THEN NULL ELSE Some(MedianX2([i \in 1..n |-> rows[i].pdc])),
         avg_gaps |-> <<SumSeq([i \in 1..n |-> rows[i].num_gaps]), n>>,
         avg_gap_days |-> <<SumSeq([i \in 1..n |-> rows[i].total_gap_days]), n>>]

\* drug_stats: groupby('drug_name'), which leaves out the rows without name
DrugStats(rows) ==
    LET n == Len(rows)
        names == {Val(rows[i].drug_name) : i \in {j \in 1..n : NotNull(rows[j].drug_name)}}
        Of(name) == {i \in 1..n : rows[i].drug_name = Some(name)}
    IN  [name \in names |->
            [person_id |-> Cardinality({rows[i].person_id : i \in Of(name)}),
             adherence_status |->
                 <<Cardinality({i \in Of(name) : rows[i].adherence_status = "Adherent"}),
                   Cardinality(Of(name))>>]]

\* the exception the statistics over a result without rows may raise
EmptyResultError == "statistics of an empty result raised"

\* Every result get_summary_statistics can return on the table.  On a PDC
\* result without rows the division by len(pdc_df) and the aggregations
\* either go through (with NaN) or raise.
SummaryOutcomes(table, tbl, start_date, end_date, pdc_threshold, pdc_as) ==
    LET pdcs == PdcOriginalOutcomes(table, tbl, start_date, end_date, pdc_threshold,
                                    DefaultMinTreatmentDays)
        Returned(o) ==
            [op |-> "summary", start_date |-> start_date, end_date |-> end_date,
             pdc_threshold |-> pdc_threshold, pdc_as |-> pdc_as, raised |-> NULL,
             overall |-> OverallStats(o.rows),
             by_drug |-> DrugStats(o.rows),
             pdc_distribution |-> PdcDistribution(o.rows, pdc_as),
             full_data |-> o.rows]
        Raised(o) ==
            [op |-> "summary", start_date |-> start_date, end_date |-> end_date,
             pdc_threshold |-> pdc_threshold, pdc_as |-> pdc_as,
             raised |-> Some(EmptyResultError)]
    IN  {Returned(o) : o \in pdcs} \cup {Raised(o) : o \in {q \in pdcs : q.rows = <<>>}}

GetSummaryStatistics(start_date, end_date, pdc_threshold, pdc_as) ==
    /\ \E out \in SummaryOutcomes(db, concept, start_date, end_date, pdc_threshold, pdc_as) :
          res' = out
    /\ UNCHANGED <<db, concept, int_cast>>

\* what collect() hands over for a DECIMAL column
PdcColumnTypes == {"Decimal", "float"}

\* fills of SpecSummary: with the one-day fill on day 39, a group that
\* spans 40 days and has 20, 22, 24, 28, 32, 36 or all of them covered; a
\* group of two fills that end the day before they start (30 days, none
\* covered); and a fill of a drug type the query leaves out
SummaryFills ==
    {Interval(1, 1, 0, e) : e \in {18, 20, 22, 26, 30, 34, 39}}
        \cup {Interval(1, 1, 39, 39), Interval(2, 1, 0, -1), Interval(2, 1, 30, 29),
              Fill(2, 1, OtherType, Some(0), Some(39), NULL, NULL)}

\* the summary statistics over 40 days, with the default threshold
NextSummary ==
    \/ \E de \in SummaryFills : InsertFill(de)
    \/ \E a \in PdcColumnTypes : GetSummaryStatistics(0, 39, 8000, a)

SpecSummary == Init /\ [][NextSummary]_vars

\* the pdc values (in units of 0.0001) the label of a bin names
LabelRange(l) ==
    IF l = "<50%" THEN 0..4999
    ELSE IF l = "50-59%" THEN 5000..5999
    ELSE IF l = "60-69%" THEN 6000..6999
    ELSE IF l = "70-79%" THEN 7000..7999
    ELSE IF l = "80-89%" THEN 8000..8999
    ELSE 9000..10000

\* C30: in get_summary_statistics every row of the PDC result is counted in
\* exactly one pdc_distribution bin, the one whose label contains its pdc
\* (0.80 under '80-89%', 0.50 under '50-59%', 0 under '<50%'), so the bin
\* counts sum to the number of rows.
C30_EveryRowInItsBin ==
    (res.op = "summary" /\ IsNull(res.raised)) =>
        /\ \A l \in DOMAIN res.pdc_distribution :
              res.pdc_distribution[l]
                  = Cardinality({i \in 1..Len(res.full_data) :
                                    res.full_data[i].pdc \in LabelRange(l)})
        /\ SumSeq([i \in 1..Len(PdcBinLabels) |-> res.pdc_distribution[PdcBinLabels[i]]])
             = Len(res.full_data)

====
